---- MODULE Spec2Model ----
(***************************************************************************)
(* Model of the template-aware JSON validation pipeline:                   *)
(*   mustacheProcessor.ts  - transducer, trailing-comma repair, offset map *)
(*   validation.ts         - runValidation, diagnosticsFromBetterErrors    *)
(* Texts are sequences of one-character strings.  Offsets are 0-based as   *)
(* in the source; the character at offset o of s is s[o + 1].              *)
(***************************************************************************)
EXTENDS Integers, Sequences, FiniteSets, TLC

VARIABLES
    text,          \* input of processMustacheTemplate
    pc,            \* position of the transducer pipeline
    cleanedText,   \* MustacheProcessResult.cleanedText
    mappings,      \* MustacheProcessResult.mappings
    hasMustache,   \* MustacheProcessResult.hasMustache
    queryOffset,   \* argument of the last mapCleanedToOriginal call
    mappedOffset,  \* its result
    repairIn,      \* argument of the last removeInvalidTrailingCommas call
    repairOut,     \* its result
    repairCalls,   \* number of removeInvalidTrailingCommas calls made on the chain
    editorText,    \* doc.getText(): the document as the editor holds it
    diskText,      \* the document's file on disk (read when onSave is true)
    isMustacheFile,\* doc.uri.fsPath ends with '.json.mustache'
    runs,          \* the runValidation calls: position and locals of each
    started,       \* number of runValidation calls made so far
    diagnostics,   \* the DiagnosticCollection's entry for doc.uri
    statusBar,     \* statusBar.text
    shown,         \* messages shown through vscode.window.show*Message
    hostAlive,     \* the extension host process has not exited
    languageId,    \* doc.languageId of every open document
    typingTimers,  \* the debounce map: the pending timer of every key
    sinceChange,   \* time since the document's last change event (-1: none yet)
    debouncedRuns, \* runValidation calls made by timers since that event
    firedAfter,    \* sinceChange of the document when its timer last fired
    events,        \* number of change and save events delivered so far
    awaiting,      \* an edit or save of the document has had no run yet
    schemaCache,   \* schemaLoader's cache: the entry of every URL
    now,           \* Date.now() in milliseconds
    loads,         \* the loadSchema calls: position and locals of each
    loadCount,     \* number of loadSchema calls made so far
    fetchedAt,     \* when a loadSchema of the source last resolved by a fetch
    cleared,       \* clearSchemaCache ran and the source was not loaded since
    fixError,      \* the engine error a diagnostic is built from
    fixHeader,     \* the component name found for it, "" if none
    fixDiag,       \* message and code of the diagnostic built from it
    fixActions,    \* what provideCodeActions returned for that diagnostic
    fixPc,         \* "reported", "emitted" or "offered"
    fixDoc,        \* the text of the document the error was found in
    fixConstText   \* the text the 'Set to constant' fix inserts, if offered

tvars == <<text, pc, cleanedText, mappings, hasMustache, queryOffset,
           mappedOffset, repairIn, repairOut, repairCalls>>

vvars == <<editorText, diskText, isMustacheFile, runs, started,
           diagnostics, statusBar, shown>>

dvars == <<languageId, typingTimers, sinceChange, debouncedRuns, firedAfter,
           events, awaiting>>

cvars == <<schemaCache, now, loads, loadCount, fetchedAt, cleared>>

qvars == <<fixError, fixHeader, fixDiag, fixActions, fixPc, fixDoc, fixConstText>>

evars == <<hostAlive, languageId, typingTimers, sinceChange, debouncedRuns,
           firedAfter, events, awaiting,
           schemaCache, now, loads, loadCount, fetchedAt, cleared,
           fixError, fixHeader, fixDiag, fixActions, fixPc,
          fixDoc, fixConstText>>

vars == <<text, pc, cleanedText, mappings, hasMustache, queryOffset,
          mappedOffset, repairIn, repairOut, repairCalls,
          editorText, diskText, isMustacheFile, runs, started,
          diagnostics, statusBar, shown, hostAlive,
          languageId, typingTimers, sinceChange, debouncedRuns, firedAfter,
          events, awaiting,
          schemaCache, now, loads, loadCount, fetchedAt, cleared,
          fixError, fixHeader, fixDiag, fixActions, fixPc,
          fixDoc, fixConstText>>

----------------------------------------------------------------------------
(* Bounds *)

\* number of pieces an input text is assembled from
MaxPieces == 3

\* number of errors the validation engine reports in one run
MaxErrors == 2

\* largest line a code frame of better-ajv-errors names
MaxFrameLine == 1

\* number of runValidation calls on the document
MaxRuns == 2
MaxEvents == 4
MaxLoads == 2
MaxDepth == 2
MaxBraceLen == 7
MaxClockSteps == 4

----------------------------------------------------------------------------
(* Characters *)

Sigils == {"#", "^", "/", "!", ">"}
Whitespace == {" ", "\n"}

\* 'sampleValue'
SampleValue == <<"s", "a", "m", "p", "l", "e", "V", "a", "l", "u", "e">>
\* '"sampleValue"'
QuotedSampleValue == <<"\"">> \o SampleValue \o <<"\"">>

\* size of the context window handed to generateSampleValue
ContextWindow == 200

Max(a, b) == IF a >= b THEN a ELSE b
Min(a, b) == IF a <= b THEN a ELSE b

SetMin(S) == CHOOSE x \in S : \A y \in S : x <= y
SetMax(S) == CHOOSE x \in S : \A y \in S : x >= y

\* String.prototype.slice(from, to) for 0 <= from, to (0-based, end exclusive)
Slice(s, from, to) ==
    LET f == Min(from, Len(s))
        e == Min(to, Len(s))
    IN IF e <= f THEN <<>> ELSE SubSeq(s, f + 1, e)

\* String.prototype.lastIndexOf(c): 0-based index, -1 when absent
LastIndexOf(s, c) ==
    IF \E j \in 1..Len(s) : s[j] = c
    THEN SetMax({j \in 1..Len(s) : s[j] = c}) - 1
    ELSE -1

\* (s.match(/c/g) || []).length
CountChar(s, c) == Cardinality({j \in 1..Len(s) : s[j] = c})

\* offset of the first non-whitespace character at or after offset i
SkipWhitespace(s, i) ==
    SetMin({j \in i..Len(s) : j = Len(s) \/ s[j + 1] \notin Whitespace} \cup {Max(i, Len(s))})

\* String.prototype.trim(), leading side (the only side startsWith reads)
TrimStart(s) == Slice(s, SkipWhitespace(s, 0), Len(s))

StartsWith(s, c) == s # <<>> /\ Head(s) = c

----------------------------------------------------------------------------
(* The placeholder pattern *)

\* 0-based offset of the first "}" at or after offset i, or -1
FirstClose(s, i) ==
    IF \E j \in (i + 1)..Len(s) : s[j] = "}"
    THEN SetMin({j \in (i + 1)..Len(s) : s[j] = "}"}) - 1
    ELSE -1

CharAt(s, i) == IF i >= 0 /\ i < Len(s) THEN s[i + 1] ELSE ""

\* first alternative, \{\{\{([^}]+)\}\}\} , anchored at offset i, with k the
\* offset of the first "}" at or after i + 3
TripleWith(str, i, k) ==
    IF /\ CharAt(str, i) = "{" /\ CharAt(str, i + 1) = "{" /\ CharAt(str, i + 2) = "{"
       /\ k > i + 3
       /\ CharAt(str, k + 1) = "}" /\ CharAt(str, k + 2) = "}"
    THEN [ok |-> TRUE, end |-> k + 3, prefix |-> <<>>, expression |-> Slice(str, i + 3, k)]
    ELSE [ok |-> FALSE, end |-> i, prefix |-> <<>>, expression |-> <<>>]

TripleAt(str, i) == TripleWith(str, i, FirstClose(str, i + 3))

\* second alternative, \{\{([#^/!>]?)([^}]*)\}\} , anchored at offset i, with k the
\* offset of the first "}" at or after i + 2
DoubleWith(str, i, k) ==
    IF /\ CharAt(str, i) = "{" /\ CharAt(str, i + 1) = "{"
       /\ k >= i + 2
       /\ CharAt(str, k + 1) = "}"
    THEN IF k > i + 2 /\ CharAt(str, i + 2) \in Sigils
         THEN [ok |-> TRUE, end |-> k + 2, prefix |-> <<CharAt(str, i + 2)>>,
               expression |-> Slice(str, i + 3, k)]
         ELSE [ok |-> TRUE, end |-> k + 2, prefix |-> <<>>,
               expression |-> Slice(str, i + 2, k)]
    ELSE [ok |-> FALSE, end |-> i, prefix |-> <<>>, expression |-> <<>>]

DoubleAt(str, i) == DoubleWith(str, i, FirstClose(str, i + 2))

\* mustacheRegex anchored at offset i: the alternatives are tried in order
FirstOk(triple, str, i) == IF triple.ok THEN triple ELSE DoubleAt(str, i)

MatchAt(str, i) == FirstOk(TripleAt(str, i), str, i)

\* mustacheRegex.exec from lastIndex i: offset of the leftmost match, or -1
ExecFrom(str, i) ==
    IF \E j \in i..(Len(str) - 1) : MatchAt(str, j).ok
    THEN SetMin({j \in i..(Len(str) - 1) : MatchAt(str, j).ok})
    ELSE -1

\* the detector's pattern /\{\{[#^/!>]?[^}]*\}\}/ anchored at offset i, with k the
\* offset of the first "}" at or after i + 2
DetectWith(str, i, k) ==
    /\ CharAt(str, i) = "{" /\ CharAt(str, i + 1) = "{"
    /\ k >= i + 2
    /\ CharAt(str, k + 1) = "}"

\* a detector that knows only tags with a sigil
DetectAtWithSigil(str, i) ==
    DetectWith(str, i, FirstClose(str, i + 2)) /\ CharAt(str, i + 2) \in Sigils

DetectAt(str, i) == DetectWith(str, i, FirstClose(str, i + 2))

hasMustacheSyntax(str) == \E i \in 0..(Len(str) - 1) : DetectAt(str, i)

----------------------------------------------------------------------------
(* generateSampleValue *)

\* the sample for a value expression, from the quotes after the later delimiter
\* quotes counted over the whole window instead of after the delimiter
SampleAfterCountingAll(beforeContext, delimiterIndex) ==
    IF delimiterIndex >= 0
    THEN (IF CountChar(beforeContext, "\"") % 2 = 1 THEN SampleValue ELSE QuotedSampleValue)
    ELSE QuotedSampleValue

SampleAfter(beforeContext, delimiterIndex) ==
    IF delimiterIndex >= 0
    THEN (IF CountChar(Slice(beforeContext, delimiterIndex + 1, Len(beforeContext)), "\"") % 2 = 1
          THEN SampleValue
          ELSE QuotedSampleValue)
    ELSE QuotedSampleValue

\* tags with a sigil treated as value placeholders
SampleForIgnoringSigils(expr, beforeContext) ==
    SampleAfter(beforeContext,
                Max(LastIndexOf(beforeContext, ":"), LastIndexOf(beforeContext, "[")))

\* every value placeholder replaced by the quoted literal
SampleForAlwaysQuoted(expr, beforeContext) ==
    IF \E c \in Sigils : StartsWith(expr, c) THEN <<>> ELSE QuotedSampleValue

SampleFor(expr, beforeContext) ==
    IF \E c \in Sigils : StartsWith(expr, c) THEN <<>>
    ELSE SampleAfter(beforeContext,
                     Max(LastIndexOf(beforeContext, ":"), LastIndexOf(beforeContext, "[")))

generateSampleValue(mustacheExpr, context) ==
    SampleFor(TrimStart(mustacheExpr),
              Slice(context, Max(0, Len(context) - ContextWindow), Len(context)))

----------------------------------------------------------------------------
(* removeInvalidTrailingCommas *)

\* the positions (1-based) of the commas that /,(\s*)C/g matches for a closing
\* character C: a match is a comma, whitespace and C, so no two matches overlap
MatchedCommas(s, close) ==
    {j \in 1..Len(s) : s[j] = "," /\ CharAt(s, SkipWhitespace(s, j)) = close}

\* the characters of s at the positions kept, in order
KeepWithout(s, kept, removed) ==
    IF removed = {} THEN s
    ELSE [n \in 1..Cardinality(kept) |->
            s[CHOOSE j \in kept : j - Cardinality({x \in removed : x < j}) = n]]

KeepOnly(s, kept) == KeepWithout(s, kept, (1..Len(s)) \ kept)

\* text.replace(/,(\s*)C/g, '$1C') for a closing character C
ReplaceCommaBefore(s, close) ==
    KeepOnly(s, (1..Len(s)) \ MatchedCommas(s, close))

removeInvalidTrailingCommas(t) ==
    ReplaceCommaBefore(ReplaceCommaBefore(t, "]"), "}")

----------------------------------------------------------------------------
(* processMustacheTemplate *)

TextMapping(os, oe, cs, ce) ==
    [originalStart |-> os, originalEnd |-> oe, cleanedStart |-> cs,
     cleanedEnd |-> ce, type |-> "text", replacement |-> <<>>]

MustacheMapping(os, oe, cs, ce, rep) ==
    [originalStart |-> os, originalEnd |-> oe, cleanedStart |-> cs,
     cleanedEnd |-> ce, type |-> "mustache", replacement |-> rep]

\* the while loop over mustacheRegex.exec; st holds the loop's locals
RECURSIVE MatchLoop(_, _)

\* append the replacement, record its mapping, advance past the match
EmitMatch(src, st, matchStart, matchEnd, replacement) ==
    MatchLoop(src,
        [lastIndex |-> matchEnd,
         cleanedOffset |-> st.cleanedOffset + Len(replacement),
         cleanedText |-> st.cleanedText \o replacement,
         mappings |-> Append(st.mappings,
                             MustacheMapping(matchStart, matchEnd, st.cleanedOffset,
                                             st.cleanedOffset + Len(replacement),
                                             replacement)),
         foundMustache |-> TRUE])

\* the text between the previous match and this one
EmitTextBefore(src, st, matchStart) ==
    IF matchStart > st.lastIndex
    THEN [st EXCEPT
            !.cleanedText = @ \o Slice(src, st.lastIndex, matchStart),
            !.mappings = Append(@, TextMapping(st.lastIndex, matchStart, st.cleanedOffset,
                                               st.cleanedOffset + (matchStart - st.lastIndex))),
            !.cleanedOffset = @ + (matchStart - st.lastIndex)]
    ELSE st

LoopBody(src, st, matchStart, m) ==
    EmitMatch(src, EmitTextBefore(src, st, matchStart), matchStart, m.end,
              generateSampleValue(m.prefix \o m.expression,
                                  Slice(src, Max(0, matchStart - ContextWindow), matchStart)))

LoopStep(src, st, matchStart) ==
    IF matchStart < 0 THEN st ELSE LoopBody(src, st, matchStart, MatchAt(src, matchStart))

MatchLoop(src, st) == LoopStep(src, st, ExecFrom(src, st.lastIndex))

\* the text after the last match, then the trailing-comma repair
Finish(input, fin) ==
    IF fin.lastIndex < Len(input)
    THEN [cleanedText |-> removeInvalidTrailingCommas(
                              fin.cleanedText \o Slice(input, fin.lastIndex, Len(input))),
          hasMustache |-> fin.foundMustache,
          mappings |-> Append(fin.mappings,
                              TextMapping(fin.lastIndex, Len(input), fin.cleanedOffset,
                                          fin.cleanedOffset + (Len(input) - fin.lastIndex)))]
    ELSE [cleanedText |-> removeInvalidTrailingCommas(fin.cleanedText),
          hasMustache |-> fin.foundMustache,
          mappings |-> fin.mappings]

\* cleanedText as the loop and the tail leave it, before the repair
CleanedBeforeRepairOf(input, fin) ==
    IF fin.lastIndex < Len(input)
    THEN fin.cleanedText \o Slice(input, fin.lastIndex, Len(input))
    ELSE fin.cleanedText

cleanedBeforeRepair(input) ==
    CleanedBeforeRepairOf(input,
        MatchLoop(input, [lastIndex |-> 0, cleanedOffset |-> 0, cleanedText |-> <<>>,
                          mappings |-> <<>>, foundMustache |-> FALSE]))

processMustacheTemplate(input) ==
    Finish(input, MatchLoop(input, [lastIndex |-> 0, cleanedOffset |-> 0, cleanedText |-> <<>>,
                                    mappings |-> <<>>, foundMustache |-> FALSE]))

----------------------------------------------------------------------------
(* mapCleanedToOriginal *)

\* the condition of the first loop
Contains(mapping, cleanedOffset) ==
    cleanedOffset >= mapping.cleanedStart /\ cleanedOffset <= mapping.cleanedEnd

\* first loop: the first mapping, in list order, that contains the offset
RECURSIVE FirstContaining(_, _, _)
FirstContaining(maps, cleanedOffset, i) ==
    IF i > Len(maps) THEN 0
    ELSE IF Contains(maps[i], cleanedOffset) THEN i
    ELSE FirstContaining(maps, cleanedOffset, i + 1)

\* second loop: the last mapping that starts before the offset
RECURSIVE LastStartingBefore(_, _, _)
LastStartingBefore(maps, cleanedOffset, i) ==
    IF i < 1 THEN 0
    ELSE IF maps[i].cleanedStart < cleanedOffset THEN i
    ELSE LastStartingBefore(maps, cleanedOffset, i - 1)

\* a mapper without the closest-position fallback: 0 beyond the last range
MapWithNoFallback(cleanedOffset, maps, hit, prior) ==
    IF hit > 0
    THEN (IF maps[hit].type = "text"
          THEN maps[hit].originalStart + (cleanedOffset - maps[hit].cleanedStart)
          ELSE maps[hit].originalStart)
    ELSE 0

\* a mapper that shifts inside placeholder ranges as it does inside text
MapWithShiftEverywhere(cleanedOffset, maps, hit, prior) ==
    IF hit > 0
    THEN maps[hit].originalStart + (cleanedOffset - maps[hit].cleanedStart)
    ELSE IF cleanedOffset <= 0 THEN 0
    ELSE IF prior > 0 THEN maps[prior].originalEnd
    ELSE 0

\* hit: result of the first loop; prior: result of the second loop (0: none)
MapWith(cleanedOffset, maps, hit, prior) ==
    IF hit > 0
    THEN (IF maps[hit].type = "text"
          THEN maps[hit].originalStart + (cleanedOffset - maps[hit].cleanedStart)
          ELSE maps[hit].originalStart)
    ELSE IF cleanedOffset <= 0 THEN 0
    ELSE IF prior > 0 THEN maps[prior].originalEnd
    ELSE 0

mapCleanedToOriginal(cleanedOffset, maps) ==
    MapWith(cleanedOffset, maps,
            FirstContaining(maps, cleanedOffset, 1),
            LastStartingBefore(maps, cleanedOffset, Len(maps)))

\* mapCleanedRangeToOriginal: both ends through mapCleanedToOriginal
mapCleanedRangeToOriginal(cleanedStart, cleanedEnd, maps) ==
    [start |-> mapCleanedToOriginal(cleanedStart, maps),
     end |-> mapCleanedToOriginal(cleanedEnd, maps)]

----------------------------------------------------------------------------
(* The syntax tree of the validated text (jsonc-parser's parseTree and         *)
(* findNodeAtLocation), for documents that are one top-level array: the nodes  *)
(* an instancePath "/i" can address are the array's elements.                  *)

Openers == {"[", "{"}
Closers == {"]", "}"}

NodeType(c) ==
    IF c = "[" THEN "array"
    ELSE IF c = "{" THEN "object"
    ELSE IF c = "\"" THEN "string"
    ELSE "number"

Node(str, from, to) == [offset |-> from, length |-> to - from, type |-> NodeType(CharAt(str, from))]

\* the positions (1-based) of the characters of set cs that are outside string literals
Structural(str, cs) ==
    {j \in 1..Len(str) :
        /\ str[j] \in cs
        /\ Cardinality({k \in 1..j : str[k] = "\""}) % 2 = 0}

\* the number of brackets open before position j
Depth(opens, closes, j) ==
    Cardinality({k \in opens : k < j}) - Cardinality({k \in closes : k < j})

\* the element whose tokens are at positions toks (none when there are no tokens)
WithElement(str, acc, toks) ==
    IF toks = {} THEN acc ELSE Append(acc, Node(str, SetMin(toks) - 1, SetMax(toks)))

\* the elements between consecutive cuts: the root's brackets and its commas
RECURSIVE Elements(_, _, _, _)
Elements(str, a, cuts, acc) ==
    IF cuts = {} THEN acc
    ELSE Elements(str, SetMin(cuts), cuts \ {SetMin(cuts)},
                  WithElement(str, acc,
                              {j \in (a + 1)..(SetMin(cuts) - 1) : str[j] \notin Whitespace}))

RootClose(str, opens, closes) ==
    SetMin({j \in closes : Depth(opens, closes, j) = 1} \cup {Len(str) + 1})

TreeWith(str, opens, closes, commas, close) ==
    IF opens = {} THEN <<>>
    ELSE Elements(str, SetMin(opens),
                  {j \in commas : j < close /\ Depth(opens, closes, j) = 1} \cup {close},
                  <<>>)

TreeOf(str, opens, closes) ==
    TreeWith(str, opens, closes, Structural(str, {","}), RootClose(str, opens, closes))

\* parseTree(text): the element nodes of the root array, in order
parseTree(str) == TreeOf(str, Structural(str, Openers), Structural(str, Closers))

\* parseTree returns undefined for a text without any token
RootExists(str) == \E i \in 1..Len(str) : str[i] \notin Whitespace

\* findNodeAtLocation(root, [p]): 0 when there is no such element, else its index
findNodeAtLocation(nodes, p) == IF p >= 0 /\ p < Len(nodes) THEN p + 1 ELSE 0

----------------------------------------------------------------------------
(* diagnosticsFromBetterErrors *)

\* the keywords the placeholder filter suppresses
SuppressedKeywords == {"type", "format", "enum", "const", "pattern"}

\* the overlap test of the placeholder filter
Overlaps(nodeStart, nodeEnd, m) ==
    \/ (nodeStart >= m.cleanedStart /\ nodeStart < m.cleanedEnd)
    \/ (nodeEnd > m.cleanedStart /\ nodeEnd <= m.cleanedEnd)
    \/ (m.cleanedStart >= nodeStart /\ m.cleanedStart < nodeEnd)

wasMustache(node, maps) ==
    \E k \in 1..Len(maps) :
        /\ maps[k].type = "mustache"
        /\ maps[k].replacement # <<>>
        /\ Overlaps(node.offset, node.offset + node.length, maps[k])

\* the placeholder filter on an error whose path resolved to nodes[n] (n = 0: no node)
SuppressedAt(err, run, n) ==
    /\ run.processed /\ run.hasMustache
    /\ n > 0
    /\ wasMustache(run.nodes[n], run.mappings)
    /\ err.keyword \in SuppressedKeywords

\* step 1: the predicate of errors.filter
KeepError(err, run) ==
    /\ err.keyword # "if"
    /\ ~SuppressedAt(err, run, findNodeAtLocation(run.nodes, err.instancePath))

filteredErrors(errors, run) == SelectSeq(errors, LAMBDA e : KeepError(e, run))

\* a de-duplication that keeps the last error of each instancePath instead
RECURSIVE uniqueErrorsKeepingLast(_, _, _)
uniqueErrorsKeepingLast(errs, seen, acc) ==
    IF errs = <<>> THEN acc
    ELSE IF \E k \in 2..Len(errs) : errs[k].instancePath = Head(errs).instancePath
         THEN uniqueErrorsKeepingLast(Tail(errs), seen, acc)
         ELSE uniqueErrorsKeepingLast(Tail(errs), seen, Append(acc, Head(errs)))

\* step 2: the first error of each instancePath, in list order
RECURSIVE uniqueErrors(_, _, _)
uniqueErrors(errs, seen, acc) ==
    IF errs = <<>> THEN acc
    ELSE IF Head(errs).instancePath \in seen
         THEN uniqueErrors(Tail(errs), seen, acc)
         ELSE uniqueErrors(Tail(errs), seen \cup {Head(errs).instancePath},
                           Append(acc, Head(errs)))

\* a severity that does not look at the keyword
SeverityAlwaysError(keyword) == "Error"

Severity(keyword) == IF keyword = "additionalProperties" THEN "Warning" ELSE "Error"

\* number of lines of a document: doc.lineCount
LineCount(str) == 1 + CountChar(str, "\n")

\* a node range that goes through the offset mapper whether or not mustache
\* processing was done
NodeRangeAlwaysMapped(node, run) ==
    [anchor |-> "node", mapped |-> TRUE,
     start |-> mapCleanedToOriginal(node.offset, run.mappings),
     end |-> mapCleanedToOriginal(node.offset + node.length, run.mappings)]

\* the range of a resolved node: mapped back when mustache processing was done;
\* mapped tells which of the two branches computed it
NodeRange(node, run) ==
    IF run.processed
    THEN [anchor |-> "node", mapped |-> TRUE,
          start |-> mapCleanedToOriginal(node.offset, run.mappings),
          end |-> mapCleanedToOriginal(node.offset + node.length, run.mappings)]
    ELSE [anchor |-> "node", mapped |-> FALSE,
          start |-> node.offset, end |-> node.offset + node.length]

\* the fallback range: the whole line the code frame of better-ajv-errors names
LineRange(line) == [anchor |-> "line", start |-> line, end |-> line]

\* doc.lineAt(line) throws for a line the document does not have
LineAtThrows(line, doc) == line < 0 \/ line >= LineCount(doc)

Diagnostic(err, range) ==
    [instancePath |-> err.instancePath, keyword |-> err.keyword,
     severity |-> Severity(err.keyword), range |-> range]

\* the loop over uniqueErrors; frameLine is the line of the code frame (0 when
\* the frame has no marker); an exception ends the function without a result
RECURSIVE BuildDiagnostics(_, _, _, _, _)

BuildOne(errs, run, doc, frameLine, acc, n) ==
    IF n > 0
    THEN BuildDiagnostics(Tail(errs), run, doc, frameLine,
                          Append(acc, Diagnostic(Head(errs), NodeRange(run.nodes[n], run))))
    ELSE IF LineAtThrows(frameLine, doc)
         THEN [threw |-> TRUE, diags |-> <<>>]
         ELSE BuildDiagnostics(Tail(errs), run, doc, frameLine,
                               Append(acc, Diagnostic(Head(errs), LineRange(frameLine))))

BuildDiagnostics(errs, run, doc, frameLine, acc) ==
    IF errs = <<>> THEN [threw |-> FALSE, diags |-> acc]
    ELSE BuildOne(errs, run, doc, frameLine, acc,
                  findNodeAtLocation(run.nodes, Head(errs).instancePath))

diagnosticsFromBetterErrors(errors, run, doc, frameLine) ==
    BuildDiagnostics(uniqueErrors(filteredErrors(errors, run), {}, <<>>),
                     run, doc, frameLine, <<>>)

----------------------------------------------------------------------------
(* Input texts of the transducer: concatenations of at most MaxPieces pieces *)

ValueTag == <<"{", "{", "a", "}", "}">>
BlockTag == <<"{", "{", "#", "a", "}", "}">>

Pieces == {ValueTag, BlockTag, <<"{">>, <<"}">>, <<"\"">>, <<":">>, <<"[">>,
           <<"]">>, <<",">>, <<" ">>, <<"a">>}

RECURSIVE TextsOf(_)
TextsOf(n) ==
    IF n = 0 THEN {<<>>}
    ELSE LET shorter == TextsOf(n - 1)
         IN shorter \cup {t \o p : t \in shorter, p \in Pieces}

Texts == TextsOf(MaxPieces)

NoMappings == <<>>

----------------------------------------------------------------------------
(* Documents of the validation runs: one top-level array of items.            *)
(*   R  [1,]      an array with a trailing comma (a repair site)              *)
(*   V  {{a}}     a value placeholder outside quotes                          *)
(*   Q  "{{a}}"   a value placeholder inside quotes                           *)
(*   L  1         a literal                                                   *)

ItemText(kind) ==
    IF kind = "R" THEN <<"[", "1", ",", "]">>
    ELSE IF kind = "V" THEN ValueTag
    ELSE IF kind = "Q" THEN <<"\"">> \o ValueTag \o <<"\"">>
    ELSE <<"1">>

RECURSIVE JoinItems(_)
JoinItems(items) ==
    IF items = <<>> THEN <<>>
    ELSE IF Len(items) = 1 THEN ItemText(items[1])
    ELSE ItemText(items[1]) \o <<",">> \o JoinItems(Tail(items))

DocText(items, newline) ==
    <<"[">> \o JoinItems(items) \o <<"]">> \o (IF newline THEN <<"\n">> ELSE <<>>)

RECURSIVE Repeat(_, _)
Repeat(kind, n) == IF n = 0 THEN <<>> ELSE <<kind>> \o Repeat(kind, n - 1)

\* numbers of repair sites before the items under test: none, two, and as many
\* as the quoted sample value has characters
RepairCounts == {0, 2, Len(QuotedSampleValue)}

TailKinds == {"V", "Q", "L"}
Tails == {<<a>> : a \in TailKinds} \cup {<<a, b>> : a \in TailKinds, b \in TailKinds}

DiagDocs ==
    {DocText(Repeat("R", k) \o tail, nl) : k \in RepairCounts, tail \in Tails, nl \in BOOLEAN}

RaceDocs == {DocText(<<"V">>, FALSE), DocText(<<"L">>, FALSE)}

RunIds == 1..MaxRuns

IdleRun ==
    [pc |-> "idle", raw |-> <<>>, textToValidate |-> <<>>, processed |-> FALSE,
     hasMustache |-> FALSE, mappings |-> <<>>, nodes |-> <<>>, errors |-> <<>>,
     outcome |-> "none", diags |-> <<>>, inFlight |-> {}]

ValidationIdle ==
    /\ editorText = <<>>
    /\ diskText = <<>>
    /\ isMustacheFile = FALSE
    /\ runs = [r \in RunIds |-> IdleRun]
    /\ started = 0
    /\ diagnostics = <<>>
    /\ statusBar = "hidden"
    /\ shown = {}

\* the open documents: the path of each as <<stem, suffix>>
Documents == {<<"a", ".json">>, <<"b", ".json.mustache">>}

\* the language ids the editor may give a document
LanguageIds == {"json", "jsonc", "handlebars"}

\* doc.uri.fsPath.endsWith('.json.mustache')
EndsWithJsonMustache(d) == d[2] = ".json.mustache"

\* ['json', 'jsonc'].includes(doc.languageId)
IsJsonLanguage(id) == id \in {"json", "jsonc"}

DEBOUNCE_MS == 500

\* one timer for all documents
SharedTimerKey(d) == <<"*", "*">>

\* const key = doc.uri.toString()
TimerKey(d) == d

TimerKeys == {TimerKey(d) : d \in Documents}

\* typingTimers.get(key) of a key the map does not hold
NoTimer == [remaining |-> -1, doc |-> <<"", "">>]

\* the debounce map and its observers before any event
DebounceIdle ==
    /\ typingTimers = [k \in TimerKeys |-> NoTimer]
    /\ sinceChange = [d \in Documents |-> -1]
    /\ debouncedRuns = [d \in Documents |-> 0]
    /\ firedAfter = [d \in Documents |-> -1]
    /\ events = 0
    /\ awaiting = [d \in Documents |-> FALSE]

\* schema sources as <<scheme, rest>>
Sources == {<<"https", "u">>, <<"http", "v">>, <<"file", "s">>}

\* source.startsWith('http://') || source.startsWith('https://')
isUrl(source) == source[1] \in {"http", "https"}

Urls == {src \in Sources : isUrl(src)}

LoadIds == 1..MaxLoads

\* schemaCache.get(url) of a URL the map does not hold
NoEntry == [schema |-> <<"", "">>, timestamp |-> -1]

IdleLoad == [pc |-> "idle", source |-> <<"", "">>, at |-> <<"", "">>, cacheDuration |-> 0,
             requested |-> {}, result |-> <<"", "">>,
             fetchedBefore |-> FALSE, clearedBefore |-> FALSE,
             inFlight |-> FALSE, redirected |-> FALSE, response |-> "none",
             servedAge |-> -1, expired |-> FALSE]

\* the loader before any call
LoaderIdle ==
    /\ schemaCache = [u \in Urls |-> NoEntry]
    /\ now = 0
    /\ loads = [i \in LoadIds |-> IdleLoad]
    /\ loadCount = 0
    /\ fetchedAt = [src \in Sources |-> -1]
    /\ cleared = [src \in Sources |-> FALSE]

\* the fields of an engine error the message, the code and the fixes read
\* a value as JavaScript holds it: its type and its canonical JSON text (for
\* a string: its characters)
Value(kind, v) == [kind |-> kind, v |-> v]

Undefined == Value("undefined", <<>>)

NoError == [keyword |-> "", type |-> "", property |-> "", allowedValues |-> <<>>,
            allowedValue |-> Undefined, conditional |-> FALSE]

NoDiagnostic == [message |-> <<>>, code |-> Undefined, range |-> <<0, 0>>]

\* no diagnostic is being looked at
QuickFixIdle ==
    /\ fixError = NoError
    /\ fixHeader = ""
    /\ fixDiag = NoDiagnostic
    /\ fixActions = <<>>
    /\ fixPc = "idle"
    /\ fixDoc = <<>>
    /\ fixConstText = <<>>

\* the extension outside runValidation: the host is running, nothing is typed
ExtensionIdle ==
    /\ hostAlive = TRUE
    /\ languageId = [d \in Documents |-> "json"]
    /\ DebounceIdle
    /\ LoaderIdle
    /\ QuickFixIdle

----------------------------------------------------------------------------
(* The validation engine's reports: an error names a keyword and the element  *)
(* its instancePath addresses; index n of an n-element array stands for a     *)
(* path that findNodeAtLocation does not resolve.                             *)

EngineKeywords == {"if", "type", "required", "additionalProperties"}

EnginePaths(n) == {p \in {0, n - 2, n - 1, n} : p >= 0}

EngineErrors(n) == [keyword : EngineKeywords, instancePath : EnginePaths(n)]

RECURSIVE ErrorLists(_, _)
ErrorLists(n, len) ==
    IF len = 0 THEN {<<>>}
    ELSE ErrorLists(n, len - 1)
         \cup {Append(l, e) : l \in {x \in ErrorLists(n, len - 1) : Len(x) = len - 1},
                              e \in EngineErrors(n)}

----------------------------------------------------------------------------
(* The transducer pipeline as a state machine *)

Init ==
    /\ text \in Texts
    /\ pc = "start"
    /\ cleanedText = <<>>
    /\ mappings = NoMappings
    /\ hasMustache = FALSE
    /\ queryOffset = 0
    /\ mappedOffset = 0
    /\ repairIn = <<>>
    /\ repairOut = <<>>
    /\ repairCalls = 0
    /\ ValidationIdle
    /\ ExtensionIdle

\* processMustacheTemplate(text), trailing-comma repair included
Process ==
    /\ pc = "start"
    /\ \E r \in {processMustacheTemplate(text)} :
          /\ cleanedText' = r.cleanedText
          /\ mappings' = r.mappings
          /\ hasMustache' = r.hasMustache
    /\ pc' = "processed"
    /\ UNCHANGED <<text, queryOffset, mappedOffset, repairIn, repairOut, repairCalls>>
    /\ UNCHANGED vvars
    /\ UNCHANGED evars

\* the cleaned length the mappings record (end of the last mapping)
RecordedCleanedLength(maps) ==
    IF maps = <<>> THEN 0 ELSE maps[Len(maps)].cleanedEnd

\* mapCleanedToOriginal(O, mappings) for an offset inside, before or beyond the ranges
MapOffset ==
    /\ pc = "processed"
    /\ \E O \in -1..(RecordedCleanedLength(mappings) + 1) :
          /\ queryOffset' = O
          /\ mappedOffset' = mapCleanedToOriginal(O, mappings)
    /\ pc' = "mapped"
    /\ UNCHANGED <<text, cleanedText, mappings, hasMustache, repairIn, repairOut, repairCalls>>
    /\ UNCHANGED vvars
    /\ UNCHANGED evars

\* removeInvalidTrailingCommas applied to the text, then to its own result
Repair ==
    /\ pc \in {"start", "repair"}
    /\ repairCalls < 2
    /\ repairIn' = (IF repairCalls = 0 THEN text ELSE repairOut)
    /\ repairOut' = removeInvalidTrailingCommas(repairIn')
    /\ repairCalls' = repairCalls + 1
    /\ pc' = "repair"
    /\ UNCHANGED <<text, cleanedText, mappings, hasMustache, queryOffset, mappedOffset>>
    /\ UNCHANGED vvars
    /\ UNCHANGED evars

Next == Process \/ MapOffset \/ Repair

Spec == Init /\ [][Next]_vars

\* texts around the context window: a head that the window may or may not
\* reach, padding, the characters right before the tag, the tag
Pad(c, n) == [i \in 1..n |-> c]

PadLengths == {0, ContextWindow - 2, ContextWindow - 1, ContextWindow, ContextWindow + 1}

Heads == {<<>>, <<":">>, <<"[">>, <<":", "\"">>, <<"\"", ":">>, <<"[", "\"", "\"">>}

Mids == {<<>>, <<"\"">>, <<":", "\"">>, <<"\"", ":">>, <<"[", ":", "\"", "\"">>,
         <<"[", "a", ",", "]", ",">>}

WindowTags == {ValueTag, BlockTag, <<"{", "{", " ", "a", "}", "}">>,
               <<"{", "{", "{", "a", "}", "}", "}">>}

WindowTexts ==
    {h \o Pad(" ", n) \o mid \o tag : h \in Heads, n \in PadLengths, mid \in Mids,
                                      tag \in WindowTags}

InitWindow ==
    /\ text \in WindowTexts
    /\ pc = "start"
    /\ cleanedText = <<>>
    /\ mappings = NoMappings
    /\ hasMustache = FALSE
    /\ queryOffset = 0
    /\ mappedOffset = 0
    /\ repairIn = <<>>
    /\ repairOut = <<>>
    /\ repairCalls = 0
    /\ ValidationIdle
    /\ ExtensionIdle

NextWindow == Process

SpecWindow == InitWindow /\ [][NextWindow]_vars

\* the documented example and its neighbours: members swapped, no blanks, an array
ExampleInput ==
    <<"{", "\"", "a", "\"", ":", " ", "\"", "{", "{", "x", "}", "}", "\"",
      ",", " ", "\"", "b", "\"", ":", " ", "{", "{", "y", "}", "}", "}">>

ExampleCleaned ==
    <<"{", "\"", "a", "\"", ":", " ", "\"", "s", "a", "m", "p", "l", "e",
      "V", "a", "l", "u", "e", "\"", ",", " ", "\"", "b", "\"", ":", " ",
      "\"", "s", "a", "m", "p", "l", "e", "V", "a", "l", "u", "e", "\"", "}">>

ExampleSwapped ==
    <<"{", "\"", "b", "\"", ":", " ", "{", "{", "y", "}", "}", ",", " ",
      "\"", "a", "\"", ":", " ", "\"", "{", "{", "x", "}", "}", "\"", "}">>

ExampleDense ==
    <<"{", "\"", "a", "\"", ":", "\"", "{", "{", "x", "}", "}", "\"", ",",
      "\"", "b", "\"", ":", "{", "{", "y", "}", "}", "}">>

ExampleArray ==
    <<"[", "\"", "{", "{", "x", "}", "}", "\"", ",", " ", "{", "{", "y", "}",
      "}", "]">>

ExampleTexts == {ExampleInput, ExampleSwapped, ExampleDense, ExampleArray}

InitExample ==
    /\ text \in ExampleTexts
    /\ pc = "start"
    /\ cleanedText = <<>>
    /\ mappings = NoMappings
    /\ hasMustache = FALSE
    /\ queryOffset = 0
    /\ mappedOffset = 0
    /\ repairIn = <<>>
    /\ repairOut = <<>>
    /\ repairCalls = 0
    /\ ValidationIdle
    /\ ExtensionIdle

SpecExample == InitExample /\ [][Next]_vars

\* templates with blocks: literal text, a value placeholder, a repair site,
\* a comment and a partial, wrapped in sections up to MaxDepth deep
SectionTag(sigil) == <<"{", "{", sigil, "a", "}", "}">>

Leaves == {<<"a", ",">>, ValueTag, <<"[", "1", ",", "]">>, SectionTag("!"), SectionTag(">")}

RECURSIVE BlockTexts(_)
BlockTexts(n) ==
    IF n = 0 THEN Leaves \cup {<<>>}
    ELSE LET inner == BlockTexts(n - 1)
         IN inner
            \cup {SectionTag(open) \o b \o SectionTag("/") : open \in {"#", "^"}, b \in inner}
            \cup {b \o leaf : b \in inner, leaf \in Leaves}

InitBlocks ==
    /\ text \in BlockTexts(MaxDepth)
    /\ pc = "start"
    /\ cleanedText = <<>>
    /\ mappings = NoMappings
    /\ hasMustache = FALSE
    /\ queryOffset = 0
    /\ mappedOffset = 0
    /\ repairIn = <<>>
    /\ repairOut = <<>>
    /\ repairCalls = 0
    /\ ValidationIdle
    /\ ExtensionIdle

NextBlocks == Process

SpecBlocks == InitBlocks /\ [][NextBlocks]_vars

\* every text of braces, a sigil and a letter up to MaxBraceLen characters:
\* the texts on which the two patterns could part
BraceChars == {"{", "}", "#", "a"}

RECURSIVE BraceTexts(_)
BraceTexts(n) ==
    IF n = 0 THEN {<<>>}
    ELSE LET shorter == BraceTexts(n - 1)
         IN shorter \cup {Append(t, c) : t \in shorter, c \in BraceChars}

InitBraces ==
    /\ text \in BraceTexts(MaxBraceLen)
    /\ pc = "start"
    /\ cleanedText = <<>>
    /\ mappings = NoMappings
    /\ hasMustache = FALSE
    /\ queryOffset = 0
    /\ mappedOffset = 0
    /\ repairIn = <<>>
    /\ repairOut = <<>>
    /\ repairCalls = 0
    /\ ValidationIdle
    /\ ExtensionIdle

NextBraces == Process

SpecBraces == InitBraces /\ [][NextBraces]_vars

----------------------------------------------------------------------------
(* runValidation as a state machine: StartRun is the call up to the await of  *)
(* loadSchema, SchemaLoaded and SchemaFailed are its two continuations.       *)

TransducerIdle ==
    /\ text = <<>>
    /\ pc = "off"
    /\ cleanedText = <<>>
    /\ mappings = NoMappings
    /\ hasMustache = FALSE
    /\ queryOffset = 0
    /\ mappedOffset = 0
    /\ repairIn = <<>>
    /\ repairOut = <<>>
    /\ repairCalls = 0

SyntaxDiagnostic ==
    [instancePath |-> -1, keyword |-> "syntax", severity |-> "Error",
     range |-> [anchor |-> "line", start |-> 0, end |-> 0]]

\* lines 99-107: the locals after the optional mustache processing; inFlight
\* records the runs that were awaiting their schema when this one was called
Prepared(raw, processed, r, inFlight) ==
    [pc |-> "loading", raw |-> raw,
     textToValidate |-> IF processed THEN r.cleanedText ELSE raw,
     processed |-> processed,
     hasMustache |-> processed /\ r.hasMustache,
     mappings |-> IF processed THEN r.mappings ELSE <<>>,
     nodes |-> parseTree(IF processed THEN r.cleanedText ELSE raw),
     errors |-> <<>>, outcome |-> "none", diags |-> <<>>, inFlight |-> inFlight]

\* lines 109-133: parse and parseTree; the run ends here on a syntax error
AfterParse(id, run, parseThrows) ==
    IF parseThrows
    THEN /\ runs' = [runs EXCEPT ![id] = [run EXCEPT !.pc = "done", !.outcome = "syntax",
                                                     !.diags = <<SyntaxDiagnostic>>]]
         /\ diagnostics' = <<SyntaxDiagnostic>>
         /\ statusBar' = "syntaxError"
    ELSE IF ~RootExists(run.textToValidate)
    THEN /\ runs' = [runs EXCEPT ![id] = [run EXCEPT !.pc = "done", !.outcome = "noRoot"]]
         /\ diagnostics' = <<>>
         /\ statusBar' = "syntaxError"
    ELSE /\ runs' = [runs EXCEPT ![id] = run]
         /\ diagnostics' = <<>>
         /\ statusBar' = "validating"

\* runValidation(doc, onSave) up to `await loadSchema(...)`
StartRun(id) ==
    /\ runs[id].pc = "idle"
    /\ id = started + 1
    /\ started' = id
    /\ \E onSave \in BOOLEAN, parseThrows \in BOOLEAN :
         \E raw \in {IF onSave THEN diskText ELSE editorText} :
            AfterParse(id,
                       Prepared(raw, isMustacheFile /\ hasMustacheSyntax(raw),
                                processMustacheTemplate(raw),
                                {o \in RunIds : runs[o].pc = "loading"}),
                       parseThrows)
    /\ UNCHANGED <<editorText, diskText, isMustacheFile, shown>>
    /\ UNCHANGED tvars
    /\ UNCHANGED evars

\* lines 158-185 for an invalid document: res is diagnosticsFromBetterErrors' result
Publish(id, errors, res) ==
    IF res.threw
    THEN /\ runs' = [runs EXCEPT ![id].pc = "done", ![id].errors = errors,
                                 ![id].outcome = "threw"]
         /\ UNCHANGED <<diagnostics, statusBar>>
    ELSE /\ runs' = [runs EXCEPT ![id].pc = "done", ![id].errors = errors,
                                 ![id].outcome = "diagnosed", ![id].diags = res.diags]
         /\ diagnostics' = res.diags
         /\ statusBar' = "errors"

\* loadSchema resolved: compile, validate, publish
SchemaLoaded(id) ==
    /\ runs[id].pc = "loading"
    /\ \E errors \in ErrorLists(Len(runs[id].nodes), MaxErrors), frameLine \in 0..MaxFrameLine :
         IF errors = <<>>
         THEN /\ runs' = [runs EXCEPT ![id].pc = "done", ![id].outcome = "valid"]
              /\ shown' = shown \cup {"valid"}
              /\ statusBar' = "ok"
              /\ UNCHANGED diagnostics
         ELSE /\ shown' = shown \cup {"errorsFound"}
              /\ Publish(id, errors,
                         diagnosticsFromBetterErrors(errors, runs[id], editorText, frameLine))
    /\ UNCHANGED <<editorText, diskText, isMustacheFile, started>>
    /\ UNCHANGED tvars
    /\ UNCHANGED evars

\* loadSchema rejected
SchemaFailed(id) ==
    /\ runs[id].pc = "loading"
    /\ runs' = [runs EXCEPT ![id].pc = "done", ![id].outcome = "schemaFailed"]
    /\ shown' = shown \cup {"schemaLoadFailed"}
    /\ statusBar' = "schemaFailed"
    /\ UNCHANGED <<editorText, diskText, isMustacheFile, started, diagnostics>>
    /\ UNCHANGED tvars
    /\ UNCHANGED evars

\* the user edits the document
Edit ==
    /\ started < MaxRuns
    /\ \E t \in RaceDocs \ {editorText} : editorText' = t
    /\ UNCHANGED <<diskText, isMustacheFile, runs, started, diagnostics, statusBar, shown>>
    /\ UNCHANGED tvars
    /\ UNCHANGED evars

\* the user saves the document
Save ==
    /\ diskText # editorText
    /\ diskText' = editorText
    /\ UNCHANGED <<editorText, isMustacheFile, runs, started, diagnostics, statusBar, shown>>
    /\ UNCHANGED tvars
    /\ UNCHANGED evars

\* one run on one document of the family
InitDiag ==
    /\ TransducerIdle
    /\ ExtensionIdle
    /\ editorText \in DiagDocs
    /\ diskText = editorText
    /\ isMustacheFile \in BOOLEAN
    /\ (isMustacheFile \/ ~hasMustacheSyntax(editorText))
    /\ runs = [r \in RunIds |-> IdleRun]
    /\ started = 0
    /\ diagnostics = <<>>
    /\ statusBar = "hidden"
    /\ shown = {}

NextDiag == StartRun(1) \/ SchemaLoaded(1) \/ SchemaFailed(1)

SpecDiag == InitDiag /\ [][NextDiag]_vars

\* several runs on a document that is edited between them
InitRace ==
    /\ TransducerIdle
    /\ ExtensionIdle
    /\ editorText \in RaceDocs
    /\ diskText = editorText
    /\ isMustacheFile = TRUE
    /\ runs = [r \in RunIds |-> IdleRun]
    /\ started = 0
    /\ diagnostics = <<>>
    /\ statusBar = "hidden"
    /\ shown = {}

NextRace ==
    \/ \E id \in RunIds : StartRun(id)
    \/ \E id \in RunIds : SchemaLoaded(id)
    \/ \E id \in RunIds : SchemaFailed(id)
    \/ Edit
    \/ Save

SpecRace == InitRace /\ [][NextRace]_vars

----------------------------------------------------------------------------
(* extension.ts: activate's own runValidation, a synchronous function, and    *)
(* the diagnosticsFromBetterErrors of that file.                              *)

\* step 1 of that diagnosticsFromBetterErrors keeps, per component group, the
\* errors with the longest instancePath.split('/'); the paths of EngineErrors
\* have no 'components' segment, so they are one group
PathSegments(err) == Len(<<"", err.instancePath>>)

rootErrors(errors) ==
    SelectSeq(errors,
              LAMBDA e : PathSegments(e)
                           = SetMax({PathSegments(errors[k]) : k \in 1..Len(errors)}))

\* the loop over rootErrors: a diagnostic of severity Error per error, anchored
\* on its node or, when the path does not resolve, on the code frame's line
RECURSIVE extensionDiagnostics(_, _, _, _, _)

extensionDiagnosticOne(errs, nodes, doc, frameLine, acc, n) ==
    IF n > 0
    THEN extensionDiagnostics(Tail(errs), nodes, doc, frameLine,
            Append(acc, [instancePath |-> Head(errs).instancePath,
                         keyword |-> Head(errs).keyword,
                         severity |-> "Error",
                         range |-> [anchor |-> "node", mapped |-> FALSE,
                                    start |-> nodes[n].offset,
                                    end |-> nodes[n].offset + nodes[n].length]]))
    ELSE IF LineAtThrows(frameLine, doc)
         THEN [threw |-> TRUE, diags |-> <<>>]
         ELSE extensionDiagnostics(Tail(errs), nodes, doc, frameLine,
                 Append(acc, [instancePath |-> Head(errs).instancePath,
                              keyword |-> Head(errs).keyword,
                              severity |-> "Error",
                              range |-> LineRange(frameLine)]))

extensionDiagnostics(errs, nodes, doc, frameLine, acc) ==
    IF errs = <<>> THEN [threw |-> FALSE, diags |-> acc]
    ELSE extensionDiagnosticOne(errs, nodes, doc, frameLine, acc,
                                findNodeAtLocation(nodes, Head(errs).instancePath))

\* the locals of a call that read the text raw
InlineRun(raw) ==
    [IdleRun EXCEPT !.pc = "done", !.raw = raw, !.textToValidate = raw,
                    !.nodes = parseTree(raw)]

\* lines 106-125: the invalid branch ends with process.exit(1)
InlineInvalid(id, run, errors, res) ==
    IF res.threw
    THEN /\ runs' = [runs EXCEPT ![id] = [run EXCEPT !.errors = errors, !.outcome = "threw"]]
         /\ diagnostics' = <<>>
         /\ statusBar' = "validating"
         /\ UNCHANGED hostAlive
    ELSE /\ runs' = [runs EXCEPT ![id] = [run EXCEPT !.errors = errors, !.outcome = "diagnosed",
                                                     !.diags = res.diags]]
         /\ diagnostics' = res.diags
         /\ statusBar' = "errors"
         /\ hostAlive' = FALSE

\* lines 64-105: parse, parseTree, the schema file, validate
InlineBody(id, run, parseThrows, schemaReadable, errors, frameLine) ==
    IF parseThrows
    THEN /\ runs' = [runs EXCEPT ![id] = [run EXCEPT !.outcome = "syntax",
                                                     !.diags = <<SyntaxDiagnostic>>]]
         /\ diagnostics' = <<SyntaxDiagnostic>>
         /\ statusBar' = "syntaxError"
         /\ UNCHANGED <<shown, hostAlive>>
    ELSE IF ~RootExists(run.raw)
    THEN /\ runs' = [runs EXCEPT ![id] = [run EXCEPT !.outcome = "noRoot"]]
         /\ diagnostics' = <<>>
         /\ statusBar' = "syntaxError"
         /\ UNCHANGED <<shown, hostAlive>>
    ELSE IF ~schemaReadable
    THEN /\ runs' = [runs EXCEPT ![id] = [run EXCEPT !.outcome = "threw"]]
         /\ diagnostics' = <<>>
         /\ statusBar' = "validating"
         /\ UNCHANGED <<shown, hostAlive>>
    ELSE IF errors = <<>>
    THEN /\ runs' = [runs EXCEPT ![id] = [run EXCEPT !.outcome = "valid"]]
         /\ diagnostics' = <<>>
         /\ statusBar' = "ok"
         /\ shown' = shown \cup {"valid"}
         /\ UNCHANGED hostAlive
    ELSE /\ shown' = shown \cup {"errorsFound"}
         /\ InlineInvalid(id, run, errors,
                          extensionDiagnostics(rootErrors(errors), parseTree(editorText),
                                               editorText, frameLine, <<>>))

\* runValidation(doc, onSave) of extension.ts
runValidationInExtension(id) ==
    /\ hostAlive
    /\ runs[id].pc = "idle"
    /\ id = started + 1
    /\ started' = id
    /\ \E onSave \in BOOLEAN, parseThrows \in BOOLEAN, schemaReadable \in BOOLEAN,
          frameLine \in 0..MaxFrameLine :
         \E raw \in {IF onSave THEN diskText ELSE editorText} :
            \E errors \in ErrorLists(Len(parseTree(raw)), MaxErrors) :
               InlineBody(id, InlineRun(raw), parseThrows, schemaReadable, errors, frameLine)
    /\ UNCHANGED <<editorText, diskText, isMustacheFile>>
    /\ UNCHANGED tvars
    /\ UNCHANGED dvars
    /\ UNCHANGED cvars
    /\ UNCHANGED qvars

InlineDocs ==
    {DocText(items, nl) : items \in {<<"L">>, <<"L", "L">>, <<"R", "L">>}, nl \in BOOLEAN}

\* a JSON document without placeholders, validated by extension.ts
InitInline ==
    /\ TransducerIdle
    /\ ExtensionIdle
    /\ editorText \in InlineDocs
    /\ diskText = editorText
    /\ isMustacheFile = FALSE
    /\ runs = [r \in RunIds |-> IdleRun]
    /\ started = 0
    /\ diagnostics = <<>>
    /\ statusBar = "hidden"
    /\ shown = {}

NextInline == \E id \in RunIds : runValidationInExtension(id)

SpecInline == InitInline /\ [][NextInline]_vars

----------------------------------------------------------------------------
(* The debounced trigger of activate: onDidChangeTextDocument keeps one     *)
(* timer per document key; time passes in steps of half a debounce period.  *)
(* What a run does once called is the validation state machine above; here  *)
(* only the calls of runValidation are counted.                             *)

TickMs == DEBOUNCE_MS \div 2

\* the observers' clocks stop counting here
ClockCap == DEBOUNCE_MS + TickMs

\* documents runValidation does not return early on
Handled(d) == IsJsonLanguage(languageId[d]) \/ EndsWithJsonMustache(d)

\* the callback bodies of onDidChangeTextDocument: clearTimeout, setTimeout, set
Scheduled(timers, d) ==
    [timers EXCEPT ![TimerKey(d)] = [remaining |-> DEBOUNCE_MS, doc |-> d]]

\* a change event of document d is delivered
OnDidChangeTextDocument(d) ==
    /\ events < MaxEvents
    /\ events' = events + 1
    /\ typingTimers' = IF IsJsonLanguage(languageId[d])
                          THEN Scheduled(typingTimers, d)
                          ELSE typingTimers
    /\ sinceChange' = [sinceChange EXCEPT ![d] = 0]
    /\ debouncedRuns' = [debouncedRuns EXCEPT ![d] = 0]
    /\ awaiting' = [awaiting EXCEPT ![d] = Handled(d)]
    /\ UNCHANGED <<languageId, firedAfter, hostAlive>>
    /\ UNCHANGED <<tvars, vvars, cvars, qvars>>

\* the document is saved: activate registers no handler for it
OnDidSaveTextDocument(d) ==
    /\ events < MaxEvents
    /\ events' = events + 1
    /\ awaiting' = [awaiting EXCEPT ![d] = Handled(d)]
    /\ UNCHANGED <<languageId, typingTimers, sinceChange, debouncedRuns,
                   firedAfter, hostAlive>>
    /\ UNCHANGED <<tvars, vvars, cvars, qvars>>

\* the timer of key k is due: runValidation(doc, false), typingTimers.delete(key)
TimerFires(k) ==
    /\ typingTimers[k].remaining = 0
    /\ \E d \in {typingTimers[k].doc} :
          /\ debouncedRuns' = [debouncedRuns EXCEPT ![d] = @ + 1]
          /\ firedAfter' = [firedAfter EXCEPT ![d] = sinceChange[d]]
          /\ awaiting' = [awaiting EXCEPT ![d] = IF Handled(d) THEN FALSE ELSE @]
    /\ typingTimers' = [typingTimers EXCEPT ![k] = NoTimer]
    /\ UNCHANGED <<languageId, sinceChange, events, hostAlive>>
    /\ UNCHANGED <<tvars, vvars, cvars, qvars>>

\* TickMs of time pass; a due timer may still wait for the event loop
Tick ==
    /\ typingTimers' =
          [k \in TimerKeys |->
              IF typingTimers[k].remaining > 0
                THEN [typingTimers[k] EXCEPT !.remaining = Max(0, @ - TickMs)]
                ELSE typingTimers[k]]
    /\ sinceChange' =
          [d \in Documents |->
              IF sinceChange[d] >= 0 THEN Min(ClockCap, sinceChange[d] + TickMs)
                                     ELSE sinceChange[d]]
    /\ UNCHANGED <<languageId, debouncedRuns, firedAfter, events, awaiting, hostAlive>>
    /\ UNCHANGED <<tvars, vvars, cvars, qvars>>

\* the language a '.json.mustache' file opens in depends on the user's setup
InitDebounce ==
    /\ TransducerIdle
    /\ ValidationIdle
    /\ hostAlive = TRUE
    /\ languageId \in [Documents -> LanguageIds]
    /\ \A d \in Documents : ~EndsWithJsonMustache(d) => IsJsonLanguage(languageId[d])
    /\ DebounceIdle
    /\ LoaderIdle
    /\ QuickFixIdle

NextDebounce ==
    \/ \E d \in Documents : OnDidChangeTextDocument(d)
    \/ \E d \in Documents : OnDidSaveTextDocument(d)
    \/ \E k \in TimerKeys : TimerFires(k)
    \/ Tick

SpecDebounce == InitDebounce /\ [][NextDebounce]_vars

\* the event loop runs a due timer and time does not stop
SpecDebounceFair ==
    /\ InitDebounce
    /\ [][NextDebounce]_vars
    /\ WF_vars(Tick)
    /\ \A k \in TimerKeys : WF_vars(TimerFires(k))

----------------------------------------------------------------------------
(* schemaLoader.ts: loadSchema, the URL cache and clearSchemaCache.  A call *)
(* that has issued a request waits for the response; other calls, the clock *)
(* and clearSchemaCache run meanwhile.                                      *)

MsPerSecond == 1000

StepMs == MsPerSecond \div 2

CacheDurations == {0, 1, 2}

\* the responses a request can end with: 200 with a schema, 301 or 302 with a
\* location, anything else (other status, bad JSON, network error, timeout)
Responses == {"ok", "redirect", "failed"}

\* headers.location of a redirect: the other URL
RedirectTarget(u) == CHOOSE w \in Urls : w # u

\* a freshness test that still serves an entry whose age equals cacheDuration
FreshUpToDuration(cache, u, t, cacheDuration) ==
    /\ cache[u] # NoEntry
    /\ t - cache[u].timestamp <= cacheDuration * MsPerSecond

\* cached && (Date.now() - cached.timestamp) / 1000 < cacheDuration
Fresh(cache, u, t, cacheDuration) ==
    /\ cache[u] # NoEntry
    /\ t - cache[u].timestamp < cacheDuration * MsPerSecond

\* resolve or reject of the call's promise: the first settlement stands, a
\* later one (after the timer of an earlier request rejected) changes nothing
Settled(load, outcome, schema, age) ==
    IF load.pc = "rejected"
      THEN [load EXCEPT !.inFlight = FALSE]
      ELSE [load EXCEPT !.pc = outcome, !.result = schema, !.servedAge = age,
                        !.inFlight = FALSE]

\* loadSchemaFromUrl up to its first wait: the cached schema, or a request
loadSchemaFromUrl(load, cache, u, t) ==
    IF Fresh(cache, u, t, load.cacheDuration)
      THEN Settled([load EXCEPT !.at = u], "resolved", cache[u].schema,
                   t - cache[u].timestamp)
      ELSE [load EXCEPT !.pc = (IF @ = "rejected" THEN @ ELSE "waiting"),
                        !.at = u, !.requested = @ \cup {u}, !.inFlight = TRUE,
                        !.expired = (cache[u] # NoEntry)]

\* loadSchemaFromFile: the file's content, or the error thrown
loadSchemaFromFile(load, exists) ==
    IF exists THEN [load EXCEPT !.pc = "resolved", !.result = load.source]
              ELSE [load EXCEPT !.pc = "rejected"]

\* a call of loadSchema(source, cacheDuration)
LoadSchema(id, source, cacheDuration) ==
    /\ loads[id].pc = "idle"
    /\ id = loadCount + 1
    /\ loadCount' = id
    /\ \E load \in {[IdleLoad EXCEPT
                        !.source = source, !.cacheDuration = cacheDuration,
                        !.fetchedBefore =
                            /\ fetchedAt[source] >= 0
                            /\ now - fetchedAt[source] < cacheDuration * MsPerSecond,
                        !.clearedBefore = cleared[source]]} :
          IF isUrl(source)
            THEN loads' = [loads EXCEPT ![id] = loadSchemaFromUrl(load, schemaCache, source, now)]
            ELSE \E exists \in BOOLEAN :
                    loads' = [loads EXCEPT ![id] = loadSchemaFromFile(load, exists)]
    /\ cleared' = [cleared EXCEPT ![source] = FALSE]
    /\ UNCHANGED <<schemaCache, now, fetchedAt>>
    /\ UNCHANGED <<tvars, vvars, dvars, qvars, hostAlive>>

\* the end of the request in flight: its response, its error or its own timeout
Response(id, response) ==
    /\ loads[id].inFlight
    /\ \E load \in {[loads[id] EXCEPT !.response = response]} :
          CASE response = "redirect" ->
                 /\ loads' = [loads EXCEPT ![id] =
                        loadSchemaFromUrl([load EXCEPT !.redirected = TRUE], schemaCache,
                                          RedirectTarget(load.at), now)]
                 /\ UNCHANGED <<schemaCache, fetchedAt>>
            [] response = "failed" ->
                 /\ loads' = [loads EXCEPT ![id] = Settled(load, "rejected", load.result, -1)]
                 /\ UNCHANGED <<schemaCache, fetchedAt>>
            [] response = "ok" ->
                 /\ schemaCache' = [schemaCache EXCEPT ![load.at] =
                                       [schema |-> load.at, timestamp |-> now]]
                 /\ loads' = [loads EXCEPT ![id] = Settled(load, "resolved", load.at, -1)]
                 /\ fetchedAt' = (IF load.pc = "waiting"
                                    THEN [fetchedAt EXCEPT ![load.source] = now]
                                    ELSE fetchedAt)
    /\ UNCHANGED <<now, loadCount, cleared>>
    /\ UNCHANGED <<tvars, vvars, dvars, qvars, hostAlive>>

\* the timeout callback of a request that was answered with a redirect: the
\* response was not consumed, so the timer of its socket can still run out
\* while the request to the redirect target is in flight, unless the server
\* closed the connection
EarlierRequestTimeout(id) ==
    /\ loads[id].pc = "waiting"
    /\ loads[id].redirected
    /\ loads' = [loads EXCEPT ![id].pc = "rejected"]
    /\ UNCHANGED <<schemaCache, now, loadCount, fetchedAt, cleared>>
    /\ UNCHANGED <<tvars, vvars, dvars, qvars, hostAlive>>

\* schemaCache.clear()
clearSchemaCache ==
    /\ schemaCache' = [u \in Urls |-> NoEntry]
    /\ fetchedAt' = [src \in Sources |-> -1]
    /\ cleared' = [src \in Sources |-> TRUE]
    /\ UNCHANGED <<now, loads, loadCount>>
    /\ UNCHANGED <<tvars, vvars, dvars, qvars, hostAlive>>

\* StepMs of time pass
ClockTick ==
    /\ now < MaxClockSteps * StepMs
    /\ now' = now + StepMs
    /\ UNCHANGED <<schemaCache, loads, loadCount, fetchedAt, cleared>>
    /\ UNCHANGED <<tvars, vvars, dvars, qvars, hostAlive>>

InitLoader ==
    /\ TransducerIdle
    /\ ValidationIdle
    /\ ExtensionIdle

NextLoader ==
    \/ \E id \in LoadIds, source \in Sources, cacheDuration \in CacheDurations :
          LoadSchema(id, source, cacheDuration)
    \/ \E id \in LoadIds, response \in Responses : Response(id, response)
    \/ \E id \in LoadIds : EarlierRequestTimeout(id)
    \/ clearSchemaCache
    \/ ClockTick

SpecLoader == InitLoader /\ [][NextLoader]_vars

\* a request in flight ends: with a response, with an error, or when its own
\* 5 second timer destroys it
SpecLoaderFair ==
    /\ InitLoader
    /\ [][NextLoader]_vars
    /\ \A id \in LoadIds : WF_vars(\E response \in Responses : Response(id, response))

----------------------------------------------------------------------------
(* Messages and codes of the diagnostics, and quickfix.ts.  A message is the *)
(* sequence of its words; a quote character is a word of its own.           *)

\* msg.includes(phrase)
Includes(msg, phrase) ==
    \E i \in 1..(Len(msg) - Len(phrase) + 1) : SubSeq(msg, i, i + Len(phrase) - 1) = phrase

\* a property name between two quote characters
Quoted(quote, name) == <<quote>> \o (IF name = "" THEN <<>> ELSE <<name>>) \o <<quote>>

\* values as their JSON.stringify text, joined with ', '
ValueList(values) ==
    [i \in 1..(2 * Len(values) - 1) |-> IF i % 2 = 1 THEN values[(i + 1) \div 2] ELSE ","]

\* err.message as the engine words it
AjvMessage(err) ==
    CASE err.keyword = "type" -> <<"must", "be", err.type>>
      [] err.keyword = "enum" ->
           <<"must", "be", "equal", "to", "one", "of", "the", "allowed", "values">>
      [] err.keyword = "const" -> <<"must", "be", "equal", "to", "constant">>
      [] err.keyword = "required" ->
           <<"must", "have", "required", "property">> \o Quoted("'", err.property)
      [] err.keyword = "additionalProperties" ->
           <<"must", "NOT", "have", "additional", "properties">>
      [] OTHER -> <<"must", "match", err.keyword>>

\* `[${compName}]` or '[Unknown]'
Header(compName) == IF compName # "" THEN compName ELSE "Unknown"

\* the text after the arrow
MessageBody(err) ==
    CASE err.keyword = "additionalProperties" ->
           <<"has", "additional", "property">> \o Quoted("\"", err.property)
              \o <<"(not", "allowed", "by", "schema)">>
      [] err.keyword = "required" ->
           <<"missing", "required", "property">> \o Quoted("\"", err.property)
              \o (IF err.conditional THEN <<"(required", "by", "conditional", "schema)">>
                                      ELSE <<>>)
      [] err.keyword \in {"then", "else"} -> AjvMessage(err)
      [] err.keyword = "enum" ->
           IF Len(err.allowedValues) > 0
             THEN <<"must", "be", "one", "of:">> \o ValueList(err.allowedValues)
             ELSE AjvMessage(err)
      [] OTHER ->
           IF err.conditional
             THEN AjvMessage(err) \o <<"(from", "conditional", "schema)">>
             ELSE AjvMessage(err)

\* msg of diagnosticsFromBetterErrors
DiagnosticMessage(err, compName) ==
    <<"[", Header(compName), "]", "/p", "->">> \o MessageBody(err)

\* diag.code: the extra property, the constant, or the allowed values
\* the characters of a property name
NameChars(name) == IF name = "icon" THEN <<"i", "c", "o", "n">> ELSE <<>>

\* the characters of a string with every '"' and '\' escaped
RECURSIVE EscapeString(_)
EscapeString(v) ==
    IF v = <<>> THEN <<>>
    ELSE (IF Head(v) \in {"\"", "\\"} THEN <<"\\", Head(v)>> ELSE <<Head(v)>>)
         \o EscapeString(Tail(v))

\* JSON.stringify: a string is escaped and put in quotes, any other value is
\* its canonical text
JSONstringify(value) ==
    IF value.kind = "string" THEN <<"\"">> \o EscapeString(value.v) \o <<"\"">>
    ELSE value.v

\* JSON.stringify of the allowed values: the text of an array
ArrayText(values) == <<"[">> \o ValueList(values) \o <<"]">>

\* the constant as the code keeps it: strings and numbers as they are,
\* anything else as the string JSON.stringify gives
ConstantCode(allowed) ==
    IF allowed.kind \in {"string", "number", "undefined"} THEN allowed
    ELSE Value("string", JSONstringify(allowed))

\* diag.code: the extra property, the constant, or the allowed values
DiagnosticCode(err) ==
    CASE err.keyword = "additionalProperties" -> Value("string", NameChars(err.property))
      [] err.keyword = "const" -> ConstantCode(err.allowedValue)
      [] err.keyword = "enum" -> Value("string", ArrayText(err.allowedValues))
      [] OTHER -> Undefined

\* a code in a condition: undefined, '' and 0 count as false
Truthy(code) ==
    CASE code.kind = "string" -> code.v # <<>>
      [] code.kind = "number" -> code.v # <<"0">>
      [] OTHER -> FALSE

\* the property nodes of the root object: the stretches between its commas
PropertyNodes(str) == parseTree(str)

\* children[0] of a property node: the key, from its opening to its closing quote
KeyNode(str, prop) ==
    [offset |-> prop.offset,
     length |-> SetMin({j \in (prop.offset + 2)..Len(str) : str[j] = "\""}) - prop.offset,
     type |-> "string"]

\* keyNode.value
KeyValue(str, key) == Slice(str, key.offset + 1, key.offset + key.length - 1)

\* findNodeAtLocation(root, []): the root
RootNode(str) == [offset |-> 0, length |-> Len(str), type |-> NodeType(CharAt(str, 0))]

\* node.children.find(...): index of the first property with that key, or 0
FindProperty(str, props, name) ==
    IF \E pi \in 1..Len(props) : KeyValue(str, KeyNode(str, props[pi])) = name
    THEN SetMin({pi \in 1..Len(props) : KeyValue(str, KeyNode(str, props[pi])) = name})
    ELSE 0

\* the node the range is taken from: the key of the additional property when
\* the name is non-empty and the object has it, else the node of the path
RangeNode(str, err, props) ==
    IF /\ err.keyword = "additionalProperties"
       /\ RootNode(str).type = "object"
       /\ NameChars(err.property) # <<>>
       /\ FindProperty(str, props, NameChars(err.property)) # 0
    THEN KeyNode(str, props[FindProperty(str, props, NameChars(err.property))])
    ELSE RootNode(str)

\* doc.positionAt of the node's ends: one line, so the offsets themselves
RangeOf(nd) == <<nd.offset, nd.offset + nd.length>>

DiagnosticRange(str, err) == RangeOf(RangeNode(str, err, PropertyNodes(str)))

\* the capture of /must have required property '(.+)'/: the words between
\* the quote after 'property' and the last quote of the message
RequiredCapture(msg) ==
    LET phrase == <<"must", "have", "required", "property", "'">>
        starts == {i \in 1..(Len(msg) - Len(phrase) + 1) :
                      SubSeq(msg, i, i + Len(phrase) - 1) = phrase}
        closes == {j \in 1..Len(msg) : msg[j] = "'"}
    IN  IF starts = {} THEN <<>>
        ELSE SubSeq(msg, SetMin(starts) + Len(phrase), SetMax(closes) - 1)

\* the type conversions offered whatever else the message says
TypeFixes(msg) ==
    (IF Includes(msg, <<"must", "be", "boolean">>) THEN <<"boolean">> ELSE <<>>)
    \o (IF Includes(msg, <<"must", "be", "number">>) THEN <<"number">> ELSE <<>>)
    \o (IF Includes(msg, <<"must", "be", "string">>) THEN <<"string">> ELSE <<>>)

\* the loop body of provideCodeActions for one diagnostic: the kinds of the
\* actions pushed, in order
FixesFor(diag, allowed) ==
    TypeFixes(diag.message) \o
    (IF /\ Includes(diag.message,
                    <<"must", "be", "equal", "to", "one", "of", "the", "allowed", "values">>)
        /\ diag.code.kind = "string"
       THEN [i \in 1..Len(allowed) |-> "replace"]
     ELSE IF /\ Includes(diag.message, <<"must", "be", "equal", "to", "constant">>)
             /\ diag.code # Undefined
       THEN <<"const">>
     ELSE (IF /\ Truthy(diag.code)
              /\ Includes(diag.message, <<"must", "NOT", "have", "additional", "properties">>)
             THEN <<"remove">> ELSE <<>>)
          \o (IF RequiredCapture(diag.message) # <<>> THEN <<"insert">> ELSE <<>>))

\* the literal the 'Set to constant' fix replaces the range with
ConstFixText(diag) == JSONstringify(diag.code)

\* provideCodeActions: reading the schema file throws before any diagnostic
provideCodeActions(diag, allowed, schemaFileReadable) ==
    IF schemaFileReadable THEN FixesFor(diag, allowed) ELSE <<>>

\* the keywords and parameters of the errors looked at
FixKeywords == {"type", "enum", "const", "required", "additionalProperties", "minimum"}
FixTypes == {"boolean", "number", "string", "integer"}
PropertyNames == {"", "icon"}
AllowedLists == {<<>>, <<"1">>, <<"1", "2">>}
AllowedConstants ==
    {Undefined, Value("string", <<"a">>), Value("string", <<"a", "\"">>),
     Value("number", <<"5">>), Value("number", <<"0">>),
     Value("boolean", <<"t", "r", "u", "e">>), Value("null", <<"n", "u", "l", "l">>),
     Value("object", <<"{", "\"", "a", "\"", ":", "1", "}">>),
     Value("array", <<"[", "1", "]">>)}

\* a root object with the named members, each with the value 1
RECURSIVE MembersText(_)
MembersText(names) ==
    IF names = <<>> THEN <<>>
    ELSE <<"\"">> \o NameChars(Head(names)) \o <<"\"", ":", "1">>
         \o (IF Len(names) > 1 THEN <<",">> ELSE <<>>) \o MembersText(Tail(names))

ObjectText(names) == <<"{">> \o MembersText(names) \o <<"}">>

FixDocs ==
    {ObjectText(names) : names \in {<<>>, <<"icon">>, <<"">>, <<"", "icon">>, <<"icon", "">>}}
    \cup {<<"[", "1", "]">>}

FixErrors ==
    {[keyword |-> k, type |-> IF k = "type" THEN t ELSE "",
      property |-> IF k \in {"required", "additionalProperties"} THEN pn ELSE "",
      allowedValues |-> IF k = "enum" THEN av ELSE <<>>,
      allowedValue |-> IF k = "const" THEN ac ELSE Undefined,
      conditional |-> c] :
        k \in FixKeywords, t \in FixTypes, pn \in PropertyNames, av \in AllowedLists,
        ac \in AllowedConstants, c \in BOOLEAN}

\* diagnosticsFromBetterErrors builds the diagnostic of the error
EmitDiagnostic ==
    /\ fixPc = "reported"
    /\ fixDiag' = [message |-> DiagnosticMessage(fixError, fixHeader),
                   code |-> DiagnosticCode(fixError),
                   range |-> DiagnosticRange(fixDoc, fixError)]
    /\ fixPc' = "emitted"
    /\ UNCHANGED <<fixError, fixHeader, fixActions, fixDoc, fixConstText>>
    /\ UNCHANGED <<tvars, vvars, dvars, cvars, hostAlive>>

\* the editor asks for the code actions of the diagnostic
ProvideCodeActions(schemaFileReadable) ==
    /\ fixPc = "emitted"
    /\ fixActions' = provideCodeActions(fixDiag, fixError.allowedValues, schemaFileReadable)
    /\ fixConstText' = IF \E ai \in 1..Len(fixActions') : fixActions'[ai] = "const"
                         THEN ConstFixText(fixDiag)
                         ELSE <<>>
    /\ fixPc' = IF schemaFileReadable THEN "offered" ELSE "threw"
    /\ UNCHANGED <<fixError, fixHeader, fixDiag, fixDoc>>
    /\ UNCHANGED <<tvars, vvars, dvars, cvars, hostAlive>>

InitQuickFix ==
    /\ TransducerIdle
    /\ ValidationIdle
    /\ hostAlive = TRUE
    /\ languageId = [d \in Documents |-> "json"]
    /\ DebounceIdle
    /\ LoaderIdle
    /\ fixError \in FixErrors
    /\ fixHeader \in {"", "Card"}
    /\ fixDiag = NoDiagnostic
    /\ fixActions = <<>>
    /\ fixPc = "reported"
    /\ fixDoc \in FixDocs
    /\ fixConstText = <<>>

NextQuickFix ==
    \/ EmitDiagnostic
    \/ \E schemaFileReadable \in BOOLEAN : ProvideCodeActions(schemaFileReadable)

SpecQuickFix == InitQuickFix /\ [][NextQuickFix]_vars

----------------------------------------------------------------------------
(* Properties of the transducer, the repair and the offset mapper *)

Processed == pc \in {"processed", "mapped"}

\* the original ranges run from 0 to n without gap or overlap
OriginalRangesPartition(maps, n) ==
    IF maps = <<>> THEN n = 0
    ELSE /\ maps[1].originalStart = 0
         /\ maps[Len(maps)].originalEnd = n
         /\ \A i \in 1..Len(maps) : maps[i].originalStart <= maps[i].originalEnd
         /\ \A i \in 1..(Len(maps) - 1) : maps[i].originalEnd = maps[i + 1].originalStart

\* the cleaned ranges run from 0 to n without gap or overlap
CleanedRangesPartition(maps, n) ==
    IF maps = <<>> THEN n = 0
    ELSE /\ maps[1].cleanedStart = 0
         /\ maps[Len(maps)].cleanedEnd = n
         /\ \A i \in 1..Len(maps) : maps[i].cleanedStart <= maps[i].cleanedEnd
         /\ \A i \in 1..(Len(maps) - 1) : maps[i].cleanedEnd = maps[i + 1].cleanedStart

\* C1: the segments returned by processMustacheTemplate have original ranges that
\* partition [0, text.length) and cleaned ranges that partition [0, length of the
\* returned cleanedText), the text after trailing-comma repair.
C1_SegmentsPartitionBothTexts ==
    Processed =>
        /\ OriginalRangesPartition(mappings, Len(text))
        /\ CleanedRangesPartition(mappings, Len(cleanedText))

\* the mapped offset lies inside the cleaned range [cleanedStart, cleanedEnd) of m
InsideCleaned(m, O) == m.cleanedStart <= O /\ O < m.cleanedEnd

\* C2: for every cleaned offset O inside the cleaned range of a text segment,
\* mapCleanedToOriginal(O) is that segment's originalStart + (O - cleanedStart).
C2_TextOffsetsShiftExactly ==
    pc = "mapped" =>
        \A i \in 1..Len(mappings) :
            (mappings[i].type = "text" /\ InsideCleaned(mappings[i], queryOffset))
            => mappedOffset = mappings[i].originalStart
                              + (queryOffset - mappings[i].cleanedStart)

\* C3: for every cleaned offset O inside the cleaned range of a placeholder segment
\* with a non-empty replacement, mapCleanedToOriginal(O) is that placeholder's
\* originalStart, also when the placeholder directly follows another one.
C3_ReplacementOffsetsCollapse ==
    pc = "mapped" =>
        \A i \in 1..Len(mappings) :
            (/\ mappings[i].type = "mustache"
             /\ mappings[i].replacement # <<>>
             /\ InsideCleaned(mappings[i], queryOffset))
            => mappedOffset = mappings[i].originalStart

\* C4: for a text without placeholder syntax processMustacheTemplate returns
\* hasMustache = false and a cleanedText equal to the input, and the returned
\* segments map every offset of [0, text.length] to itself.
C4_NoPlaceholderIsIdentity ==
    (Processed /\ ~hasMustacheSyntax(text)) =>
        /\ hasMustache = FALSE
        /\ cleanedText = text
        /\ (pc = "mapped" /\ queryOffset >= 0 /\ queryOffset <= Len(text))
           => mappedOffset = queryOffset

\* C5: removeInvalidTrailingCommas is idempotent: applied to its own result it
\* returns that result unchanged.
C5_RepairIdempotent ==
    repairCalls = 2 => repairOut = repairIn

----------------------------------------------------------------------------
(* Properties of the validation runs *)

\* the text of element n of the document a run read
RawElement(run, n) ==
    Slice(run.raw, parseTree(run.raw)[n].offset,
          parseTree(run.raw)[n].offset + parseTree(run.raw)[n].length)

\* element n of the document was written as a placeholder / as a literal
IsPlaceholder(run, n) == hasMustacheSyntax(RawElement(run, n))
IsLiteral(run, n) == ~hasMustacheSyntax(RawElement(run, n))

Resolves(run, p) == p >= 0 /\ p < Len(run.nodes)

Returned(run) == run.pc = "done" /\ run.outcome = "diagnosed"

\* C6: in a document with placeholders, a type, format, enum, const or pattern
\* error whose instancePath resolves to the synthesized replacement of a value
\* placeholder produces no diagnostic, wherever the placeholder lies (also after
\* trailing-comma repair sites).
C6_PlaceholderErrorsSuppressed ==
    \A rid \in RunIds :
        (Returned(runs[rid]) /\ runs[rid].hasMustache) =>
            \A di \in 1..Len(runs[rid].diags) :
                ~ (/\ runs[rid].diags[di].keyword \in SuppressedKeywords
                   /\ Resolves(runs[rid], runs[rid].diags[di].instancePath)
                   /\ IsPlaceholder(runs[rid], runs[rid].diags[di].instancePath + 1))

\* C7: a type, format, enum, const or pattern error whose instancePath resolves
\* to a node written as a literal is never suppressed by the placeholder filter,
\* also when the document has placeholders elsewhere: it still produces a
\* diagnostic.
C7_LiteralErrorsReported ==
    \A rid \in RunIds :
        Returned(runs[rid]) =>
            \A ei \in 1..Len(runs[rid].errors) :
                (/\ runs[rid].errors[ei].keyword \in SuppressedKeywords
                 /\ Resolves(runs[rid], runs[rid].errors[ei].instancePath)
                 /\ IsLiteral(runs[rid], runs[rid].errors[ei].instancePath + 1))
                => \E di \in 1..Len(runs[rid].diags) :
                      runs[rid].diags[di].instancePath = runs[rid].errors[ei].instancePath

\* C8: when two runs of the same document were in flight at once (the document
\* was edited between the two calls) and both have finished, the stored
\* diagnostics are those computed by the run that was triggered last, whatever
\* the order in which the schema loads completed.
C8_LastTriggeredRunWins ==
    \A a \in RunIds, b \in RunIds :
        (/\ a < b
         /\ b = started
         /\ a \in runs[b].inFlight
         /\ runs[a].raw # runs[b].raw
         /\ Returned(runs[a])
         /\ Returned(runs[b]))
        => diagnostics = runs[b].diags

\* C9: every error that survives the filters and the de-duplication yields
\* exactly one diagnostic, also when its instancePath resolves to no syntax
\* node (fallback on a whole line): diagnosticsFromBetterErrors returns as many
\* diagnostics as there are distinct instancePaths among the surviving errors.
C9_OneDiagnosticPerSurvivingPath ==
    \A rid \in RunIds :
        (runs[rid].pc = "done" /\ runs[rid].outcome \in {"diagnosed", "threw"}) =>
            /\ runs[rid].outcome = "diagnosed"
            /\ Len(runs[rid].diags) =
                 Cardinality({filteredErrors(runs[rid].errors, runs[rid])[ei].instancePath :
                                ei \in 1..Len(filteredErrors(runs[rid].errors, runs[rid]))})

\* index of the first error of list errs at instancePath p (0 when there is none)
FirstAt(errs, p) ==
    IF \E ei \in 1..Len(errs) : errs[ei].instancePath = p
    THEN SetMin({ei \in 1..Len(errs) : errs[ei].instancePath = p})
    ELSE 0

\* diags has at most one diagnostic per instancePath, each built from the first
\* error of list surviving at its path, in the relative order of those errors
FirstOccurrencesInOrder(diags, surviving) ==
    /\ \A di \in 1..Len(diags), dj \in 1..Len(diags) :
          di < dj => /\ diags[di].instancePath # diags[dj].instancePath
                   /\ FirstAt(surviving, diags[di].instancePath)
                        < FirstAt(surviving, diags[dj].instancePath)
    /\ \A di \in 1..Len(diags) :
          /\ FirstAt(surviving, diags[di].instancePath) > 0
          /\ diags[di].keyword
               = surviving[FirstAt(surviving, diags[di].instancePath)].keyword
          /\ diags[di].severity
               = Severity(surviving[FirstAt(surviving, diags[di].instancePath)].keyword)

\* C10: diagnosticsFromBetterErrors emits at most one diagnostic per
\* instancePath, built from the first error of the engine's list that survives
\* the filters, and the diagnostics keep the relative order of their errors.
C10_FirstErrorPerPathInOrder ==
    \A rid \in RunIds :
        Returned(runs[rid]) =>
            FirstOccurrencesInOrder(runs[rid].diags,
                                    filteredErrors(runs[rid].errors, runs[rid]))

\* C10 witness: a run returned diagnostics for a list in which two surviving
\* errors of different keywords share an instancePath
C10_Witness ==
    \E rid \in RunIds :
        /\ Returned(runs[rid])
        /\ Len(runs[rid].errors) = 2
        /\ Len(filteredErrors(runs[rid].errors, runs[rid])) = 2
        /\ runs[rid].errors[1].instancePath = runs[rid].errors[2].instancePath
        /\ runs[rid].errors[1].keyword # runs[rid].errors[2].keyword
        /\ Len(runs[rid].diags) = 1

\* C11: every diagnostic built from an additionalProperties error has severity
\* Warning and every diagnostic built from an error of another keyword has
\* severity Error.
C11_SeverityByKeyword ==
    \A rid \in RunIds :
        Returned(runs[rid]) =>
            \A di \in 1..Len(runs[rid].diags) :
                runs[rid].diags[di].severity
                  = (IF runs[rid].diags[di].keyword = "additionalProperties"
                     THEN "Warning" ELSE "Error")

\* C11 witness: a run returned a Warning for an additionalProperties error next
\* to an Error for an error of another keyword
C11_Witness ==
    \E rid \in RunIds :
        /\ Returned(runs[rid])
        /\ Len(runs[rid].diags) = 2
        /\ runs[rid].diags[1].keyword = "additionalProperties"
        /\ runs[rid].diags[1].severity = "Warning"
        /\ runs[rid].diags[2].keyword # "additionalProperties"
        /\ runs[rid].diags[2].severity = "Error"

\* C12: no path of a validation run terminates the host process: valid,
\* invalid, unparsable or schema failure, runValidation returns and never calls
\* process.exit.
C12_HostNeverTerminated ==
    hostAlive

\* C13: when loadSchema rejects, runValidation shows an error message, stops
\* the run and leaves the document with no diagnostics: those of an earlier run
\* are cleared and none of the run is published.
C13_SchemaFailureLeavesNoDiagnostics ==
    \A rid \in RunIds :
        (/\ rid = started
         /\ runs[rid].pc = "done"
         /\ runs[rid].outcome = "schemaFailed")
        => /\ "schemaLoadFailed" \in shown
           /\ runs[rid].diags = <<>>
           /\ diagnostics = <<>>

C15_LiteralRangesMapBack ==
    \A rid \in RunIds :
        (Returned(runs[rid]) /\ runs[rid].processed) =>
            \A di \in 1..Len(runs[rid].diags) :
                (/\ runs[rid].diags[di].range.anchor = "node"
                 /\ IsLiteral(runs[rid], runs[rid].diags[di].instancePath + 1))
                => /\ runs[rid].diags[di].range.start
                        = parseTree(runs[rid].raw)[runs[rid].diags[di].instancePath + 1].offset
                   /\ runs[rid].diags[di].range.end
                        = parseTree(runs[rid].raw)[runs[rid].diags[di].instancePath + 1].offset
                          + parseTree(runs[rid].raw)[runs[rid].diags[di].instancePath + 1].length

\* C16: a timer's run starts only once DEBOUNCE_MS have passed since the
\* document's last change event; while the timer is pending no run has been
\* made since that event and once it is gone exactly one has; the pending
\* timer of a document always has DEBOUNCE_MS minus the time since its own
\* last change left, whatever events other documents had.
C16_OneRunPerBurstAfterQuietPeriod ==
    \A dd \in Documents :
       /\ firedAfter[dd] # -1 => firedAfter[dd] >= DEBOUNCE_MS
       /\ IsJsonLanguage(languageId[dd]) /\ sinceChange[dd] >= 0 =>
             \E tm \in {typingTimers[TimerKey(dd)]} :
                IF tm = NoTimer
                  THEN debouncedRuns[dd] = 1
                  ELSE /\ debouncedRuns[dd] = 0
                       /\ tm.doc = dd
                       /\ tm.remaining = Max(0, DEBOUNCE_MS - sinceChange[dd])

\* two documents were edited in turn and the timer of one has fired while
\* the other's is still pending
C16_Witness ==
    \E dd \in Documents, de \in Documents :
       /\ dd # de
       /\ debouncedRuns[dd] = 1
       /\ firedAfter[dd] >= DEBOUNCE_MS
       /\ sinceChange[de] >= 0
       /\ sinceChange[de] < sinceChange[dd]
       /\ typingTimers[TimerKey(de)] # NoTimer

\* C17: a loadSchema of a URL called less than cacheDuration seconds after a
\* loadSchema of that URL resolved by a fetch (and with no clearSchemaCache
\* in between) resolves with a schema and issues no request; the first
\* loadSchema of a URL after clearSchemaCache issues a request.
C17_CachedWithinDurationRefetchedAfterClear ==
    \A li \in LoadIds :
       loads[li].pc # "idle" /\ isUrl(loads[li].source) =>
          /\ loads[li].fetchedBefore =>
                /\ loads[li].requested = {}
                /\ loads[li].pc = "resolved"
          /\ loads[li].clearedBefore => loads[li].requested # {}

\* the kind of fix a violation calls for
MatchingFix(err) ==
    CASE err.keyword = "type" /\ err.type \in {"boolean", "number", "string"} -> err.type
      [] err.keyword = "additionalProperties" -> "remove"
      [] err.keyword = "enum" -> "replace"
      [] err.keyword = "const" -> "const"
      [] err.keyword = "required" -> "insert"
      [] OTHER -> ""

\* C18: for the diagnostic emitted for a type (boolean, number, string),
\* additionalProperties, enum, const or required violation, the actions
\* provideCodeActions returns hold at least one of the matching kind.
C18_MatchingQuickFixOffered ==
    fixPc = "offered" /\ MatchingFix(fixError) # "" =>
       \E ai \in 1..Len(fixActions) : fixActions[ai] = MatchingFix(fixError)

\* C19: once the events stop, a handled document that was edited or saved
\* and has had no validation run since gets one.
C19_SaveOrEditEventuallyValidated ==
    \A dl \in Documents : awaiting[dl] ~> ~awaiting[dl]

\* the rule as stated: the later of ':' and '[' in the window, the parity of
\* the quote characters after it, quoted when the window holds neither
WindowBefore(src, start) == Slice(src, Max(0, start - ContextWindow), start)

Delimiters(window) == {wi \in 1..Len(window) : window[wi] \in {":", "["}}

QuotesAfter(window, from) == Cardinality({wi \in (from + 1)..Len(window) : window[wi] = "\""})

ExpectedSample(window) ==
    IF Delimiters(window) = {} THEN QuotedSampleValue
    ELSE IF QuotesAfter(window, SetMax(Delimiters(window))) % 2 = 1
         THEN SampleValue
         ELSE QuotedSampleValue

\* the tag matched at offset start is a value placeholder
IsValueTag(src, start) ==
    \E tg \in {MatchAt(src, start)} :
       tg.ok /\ ~\E sg \in Sigils : StartsWith(TrimStart(tg.prefix \o tg.expression), sg)

InString(str, j) == Cardinality({k \in 1..(j - 1) : str[k] = "\""}) % 2 = 1

SkeletonPositions(str) ==
    {j \in 1..Len(str) : ~InString(str, j) /\ str[j] \notin Whitespace}

SkeletonOf(str, ps) ==
    [n \in 1..Cardinality(ps) |->
        LET j == CHOOSE q \in ps : Cardinality({x \in ps : x <= q}) = n
        IN IF str[j] = "\"" THEN "S" ELSE str[j]]

Skeleton(str) == SkeletonOf(str, SkeletonPositions(str))

\* an object of string keys and string or digit values, every string closed
IsFlatObject(str) ==
    /\ CountChar(str, "\"") % 2 = 0
    /\ \E sk \in {Skeleton(str)} :
          /\ Len(sk) >= 2 /\ sk[1] = "{" /\ sk[Len(sk)] = "}"
          /\ Len(sk) = 2 \/ Len(sk) % 4 = 1
          /\ \A si \in 2..(Len(sk) - 1) :
                CASE si % 4 = 2 -> sk[si] = "S"
                  [] si % 4 = 3 -> sk[si] = ":"
                  [] si % 4 = 0 -> sk[si] \in {"S", "1"}
                  [] OTHER -> sk[si] = ","

\* the replacements of the value placeholders of the processed text, in order
ValueReplacements ==
    [vi \in 1..Cardinality({mi \in 1..Len(mappings) : mappings[mi].type = "mustache"}) |->
        mappings[CHOOSE mi \in 1..Len(mappings) :
                    /\ mappings[mi].type = "mustache"
                    /\ Cardinality({mj \in 1..mi : mappings[mj].type = "mustache"}) = vi
                ].replacement]

IsSigilTag(src, start) == MatchAt(src, start).ok /\ MatchAt(src, start).prefix # <<>>

\* C22: every tag with a sigil has an empty replacement and a zero-length
\* cleaned range; every stretch of text between tags stands in the cleaned
\* text before repair unchanged at its own cleaned range, the ranges follow
\* one another without gap or overlap and end at the text's end, so each
\* stretch is there exactly once, however deep the blocks nest.
C22_BlockTagsVanishBodiesKept ==
    pc = "processed" =>
       \E before \in {cleanedBeforeRepair(text)} :
          /\ \A bi \in 1..Len(mappings) :
                /\ mappings[bi].type = "mustache" /\ IsSigilTag(text, mappings[bi].originalStart) =>
                      /\ mappings[bi].replacement = <<>>
                      /\ mappings[bi].cleanedEnd = mappings[bi].cleanedStart
                /\ mappings[bi].type = "text" =>
                      Slice(before, mappings[bi].cleanedStart, mappings[bi].cleanedEnd)
                         = Slice(text, mappings[bi].originalStart, mappings[bi].originalEnd)
                /\ mappings[bi].cleanedStart = (IF bi = 1 THEN 0 ELSE mappings[bi - 1].cleanedEnd)
                /\ mappings[bi].cleanedEnd >= mappings[bi].cleanedStart
          /\ RecordedCleanedLength(mappings) = Len(before)

\* a section nested in a section, with body text, was processed
C22_Witness ==
    /\ pc = "processed"
    /\ Len(mappings) >= 5
    /\ \E bi \in 1..(Len(mappings) - 4) :
          /\ IsSigilTag(text, mappings[bi].originalStart)
          /\ IsSigilTag(text, mappings[bi + 1].originalStart)
          /\ mappings[bi + 2].type = "text"
          /\ IsSigilTag(text, mappings[bi + 3].originalStart)
          /\ IsSigilTag(text, mappings[bi + 4].originalStart)
          /\ mappings[bi + 4].cleanedStart = mappings[bi].cleanedStart + Len(mappings[bi + 2].replacement)
                                               + (mappings[bi + 2].originalEnd - mappings[bi + 2].originalStart)

\* the members of a one-line object text whose key is name: the offsets of
\* the key's opening quote and of the character after its closing quote
KeyRanges(str, name) ==
    {<<ka, ka + Len(name) + 2>> : ka \in
        {kp \in 1..(Len(str) - Len(name) - 2) :
            /\ str[kp] \in {"{", ","}
            /\ SubSeq(str, kp + 1, kp + Len(name) + 3) = <<"\"">> \o name \o <<"\"", ":">>}}

\* C23: the diagnostic of an additionalProperties error on an object that has
\* a member of that name has the range of that member's key; on an object
\* without such a member it has the range of the whole object.
C23_AdditionalPropertyRangeIsKey ==
    /\ fixPc = "emitted"
    /\ fixError.keyword = "additionalProperties"
    /\ Head(fixDoc) = "{"
    => IF KeyRanges(fixDoc, NameChars(fixError.property)) # {}
         THEN fixDiag.range \in KeyRanges(fixDoc, NameChars(fixError.property))
         ELSE fixDiag.range = <<0, Len(fixDoc)>>

\* C24: the text the 'Set to constant' fix inserts for a const violation is
\* the JSON encoding of the schema's constant, whatever its type.
C24_ConstFixRoundTrips ==
    /\ fixPc = "offered"
    /\ fixError.keyword = "const"
    /\ fixError.allowedValue # Undefined
    => fixConstText = JSONstringify(fixError.allowedValue)

\* C25: for every syntax node of a processed run whose cleaned range is the
\* cleaned range of one value placeholder's replacement, mapping the node's
\* start and end gives the non-empty range from the placeholder's
\* originalStart to its originalEnd.
C25_PlaceholderNodeCoversToken ==
    \A rid \in RunIds :
        (runs[rid].pc = "loading" /\ runs[rid].processed) =>
            \A ni \in 1..Len(runs[rid].nodes) :
               \A mi \in 1..Len(runs[rid].mappings) :
                  (/\ runs[rid].mappings[mi].type = "mustache"
                   /\ runs[rid].mappings[mi].replacement # <<>>
                   /\ runs[rid].mappings[mi].cleanedStart = runs[rid].nodes[ni].offset
                   /\ runs[rid].mappings[mi].cleanedEnd
                         = runs[rid].nodes[ni].offset + runs[rid].nodes[ni].length)
                  => /\ mapCleanedToOriginal(runs[rid].nodes[ni].offset, runs[rid].mappings)
                           = runs[rid].mappings[mi].originalStart
                     /\ mapCleanedToOriginal(runs[rid].nodes[ni].offset + runs[rid].nodes[ni].length,
                                             runs[rid].mappings)
                           = runs[rid].mappings[mi].originalEnd
                     /\ runs[rid].mappings[mi].originalEnd > runs[rid].mappings[mi].originalStart

\* C26: the detector says yes exactly when the transducer reports
\* hasMustache, and then the segment list holds a placeholder segment.
C26_DetectorAgreesWithTransducer ==
    pc = "processed" =>
       /\ hasMustacheSyntax(text) <=> hasMustache
       /\ hasMustacheSyntax(text) => \E gi \in 1..Len(mappings) : mappings[gi].type = "mustache"

\* a triple-brace tag, which only the transducer's first alternative names,
\* was detected and processed
C26_Witness ==
    /\ pc = "processed"
    /\ hasMustache
    /\ text = <<"{", "{", "{", "a", "}", "}", "}">>
    /\ hasMustacheSyntax(text)

\* the cleaned offsets a query may name: one before the ranges up to one
\* beyond the end the mappings record
QueryOffsets(maps) == -1..(RecordedCleanedLength(maps) + 1)

\* C27: on the segment list of a processed text the mapper is monotone: for
\* cleaned offsets a <= b, map(a) <= map(b), and the range mapper never
\* returns an end before its start.
C27_MapperMonotone ==
    pc = "processed" =>
       \A oa \in QueryOffsets(mappings) : \A ob \in QueryOffsets(mappings) :
          oa <= ob =>
             /\ mapCleanedToOriginal(oa, mappings) <= mapCleanedToOriginal(ob, mappings)
             /\ mapCleanedRangeToOriginal(oa, ob, mappings).start
                   <= mapCleanedRangeToOriginal(oa, ob, mappings).end

\* a processed text with a value placeholder and a zero-length block tag,
\* where the offset beyond the last range maps to the end of the text
C27_Witness ==
    /\ pc = "processed"
    /\ \E wi \in 1..Len(mappings) :
          mappings[wi].type = "mustache" /\ mappings[wi].cleanedEnd > mappings[wi].cleanedStart
    /\ \E wj \in 1..Len(mappings) :
          mappings[wj].type = "mustache" /\ mappings[wj].cleanedEnd = mappings[wj].cleanedStart
    /\ mapCleanedToOriginal(RecordedCleanedLength(mappings) + 1, mappings) = Len(text)
    /\ mapCleanedToOriginal(RecordedCleanedLength(mappings), mappings) < Len(text)

\* C28: every queried cleaned offset, negative, inside or beyond the cleaned
\* text, maps into [0, length of the original text] and never strictly inside
\* a placeholder token of the original.
C28_MappedOffsetInTextOutsideTokens ==
    pc = "mapped" =>
       /\ mappedOffset >= 0
       /\ mappedOffset <= Len(text)
       /\ \A ti \in 1..Len(mappings) :
             mappings[ti].type = "mustache"
             => ~(mappings[ti].originalStart < mappedOffset
                  /\ mappedOffset < mappings[ti].originalEnd)

\* an offset strictly inside a placeholder's replacement was queried and
\* mapped to the start of its token
C28_Witness ==
    /\ pc = "mapped"
    /\ \E tw \in 1..Len(mappings) :
          /\ mappings[tw].type = "mustache"
          /\ mappings[tw].cleanedStart < queryOffset
          /\ queryOffset < mappings[tw].cleanedEnd
          /\ mappedOffset = mappings[tw].originalStart
          /\ mappings[tw].originalStart > 0

\* C29: every call of loadSchema on a URL that waits for a response
\* eventually resolves or rejects, whatever the servers answer.
C29_EveryLoadSettles ==
    \A si \in LoadIds :
       (loads[si].pc = "waiting") ~> (loads[si].pc \in {"resolved", "rejected"})

====
